---- MODULE Spec2Model ----
(***************************************************************************)
(* Detection fusion, layout grouping and provenance pipeline of main.py    *)
(* and utils/pipeline_exporter.py.                                         *)
(*                                                                         *)
(* Python dicts are functions over string keys; dict.get(k, d) is Get.     *)
(* Thresholds are percentages, so 0.05 is 5 and 0.8 is 80.                 *)
(***************************************************************************)
EXTENDS Integers, Sequences, FiniteSets, TLC

\* ------------------------------------------------------------------ bounds
\* Longest output sequence of one detector.
MaxDet == 2
\* Most merge-back calls with one annotation map.
MaxMergeBack == 2
\* Most pieces of one typed line (commands between " : ").
MaxChain == 3
\* Most items of the list in one answer of the language model.
MaxActions == 2
\* Largest width and height of a window, in units of the display grid.
MaxWindowSide == 9
\* Most characters of a text given to send_text.
MaxText == 2

\* ------------------------------------------------------- program constants
containment_threshold == 80
min_area == 1
default_merger_iou_threshold == 5

\* Python's None as the value of an id field, and the sentinel of main.py for
\* "no id of this source".
None == "None"
NA == "NA"

\* Python's None where a dict or a list is expected.  Like the empty dict and
\* the empty list it is falsy, and the pipeline never holds an empty dict.
NoneObj == << >>
IsNone(x) == DOMAIN x = {}

\* ------------------------------------------------------------ dict helpers
Get(d, k, default) == IF k \in DOMAIN d THEN d[k] ELSE default

Put(d, k, v) == [x \in (DOMAIN d) \cup {k} |-> IF x = k THEN v ELSE d[x]]

Del(d, k) == [x \in (DOMAIN d) \ {k} |-> d[x]]

SeqToSet(s) == {s[i] : i \in 1..Len(s)}

\* f"{n:03d}": decimal digits of n, left-padded with zeros to width 3.
Fmt03d(n) ==
    IF n < 10 THEN "00" \o ToString(n)
    ELSE IF n < 100 THEN "0" \o ToString(n)
    ELSE ToString(n)

\* --------------------------------------------------------- detector output
\* Boxes the object detector can report: bbox and confidence (tenths).  Two
\* icons of one row and a bar spanning the image.
YoloBoxes ==
    { [bbox |-> <<10, 10, 50, 30>>, confidence |-> 9],
      [bbox |-> <<60, 10, 100, 30>>, confidence |-> 8],
      [bbox |-> <<2, 70, 98, 80>>, confidence |-> 7] }

\* Boxes the text detector can report: a label inside the first icon, a text
\* overlapping both icons a little, and a text below the first icon.
OcrBoxes ==
    { [bbox |-> <<12, 12, 48, 28>>, confidence |-> 8],
      [bbox |-> <<40, 10, 80, 30>>, confidence |-> 8],
      [bbox |-> <<10, 40, 50, 60>>, confidence |-> 6] }

\* Sequences without repetition, of length at most n, over S.
InjSeqs(S, n) ==
    UNION { { s \in [1..k -> S] : \A i, j \in 1..k : i # j => s[i] # s[j] }
            : k \in 0..n }

\* One raw detection as a detector returns it: it carries the detector's own
\* 'id' and no y_id / o_id yet.
RawDetection(b, src, i) ==
    [ bbox |-> b.bbox, confidence |-> b.confidence, source |-> src,
      type |-> (IF src = "yolo" THEN "icon" ELSE "text"),
      id |-> (IF src = "yolo" THEN "Y" ELSE "O") \o Fmt03d(i) ]

RawSeq(boxes, src) == [i \in 1..Len(boxes) |-> RawDetection(boxes[i], src, i)]

\* ---------------------------------------------------------------- geometry
Max(a, b) == IF a > b THEN a ELSE b
Min(a, b) == IF a < b THEN a ELSE b

Area(b) == (b[3] - b[1]) * (b[4] - b[2])

Intersection(a, b) ==
    LET w == Min(a[3], b[3]) - Max(a[1], b[1])
        h == Min(a[4], b[4]) - Max(a[2], b[2])
    IN  IF w > 0 /\ h > 0 THEN w * h ELSE 0

\* A plausible slip: the comparison is turned round.
IouAtMost(a, b, t) ==
    LET inter == Intersection(a, b)
    IN  100 * inter <= t * (Area(a) + Area(b) - inter)

\* IoU(a, b) >= t / 100
IouAtLeast(a, b, t) ==
    LET inter == Intersection(a, b)
    IN  100 * inter >= t * (Area(a) + Area(b) - inter)

\* intersection / smaller area >= t / 100
ContainmentAtLeast(a, b, t) ==
    100 * Intersection(a, b) >= t * Min(Area(a), Area(b))

\* ------------------------------------------------------------------ fusion
\* Steps 1 to 6 of the fusion algorithm: the merge that main.py inherits from
\* BBoxMerger and that ParallelProcessor runs.  A node is <<source, position>>.
Nodes(yolo, ocr) ==
    { <<"yolo", i>> : i \in 1..Len(yolo) } \cup { <<"ocr_det", j>> : j \in 1..Len(ocr) }

DetOf(yolo, ocr, n) == IF n[1] = "yolo" THEN yolo[n[2]] ELSE ocr[n[2]]

\* Step 1: boxes below min_area are noise.
Kept(yolo, ocr) ==
    { n \in Nodes(yolo, ocr) : Area(DetOf(yolo, ocr, n).bbox) >= min_area }

\* Steps 2 and 3: a duplicate pair is one object box and one text box with
\* IoU >= iou_threshold or containment >= containment_threshold.
DuplicatePair(yolo, ocr, n, m, t) ==
    /\ n[1] # m[1]
    /\ \/ IouAtLeast(DetOf(yolo, ocr, n).bbox, DetOf(yolo, ocr, m).bbox, t)
       \/ ContainmentAtLeast(DetOf(yolo, ocr, n).bbox, DetOf(yolo, ocr, m).bbox,
                             containment_threshold)

RECURSIVE Reach(_, _, _, _)
Reach(yolo, ocr, S, t) ==
    LET T == S \cup { m \in Kept(yolo, ocr) :
                        \E n \in S : DuplicatePair(yolo, ocr, n, m, t) }
    IN  IF T = S THEN S ELSE Reach(yolo, ocr, T, t)

\* Step 4: the connected duplicate group of n.
Component(yolo, ocr, n, t) == Reach(yolo, ocr, {n}, t)

\* The tie-break order: larger area, then higher confidence, then the object
\* source, then the earlier position.
Better(yolo, ocr, n, m) ==
    LET a == DetOf(yolo, ocr, n)
        b == DetOf(yolo, ocr, m)
    IN  \/ Area(a.bbox) > Area(b.bbox)
        \/ /\ Area(a.bbox) = Area(b.bbox)
           /\ \/ a.confidence > b.confidence
              \/ /\ a.confidence = b.confidence
                 /\ \/ n[1] = "yolo" /\ m[1] = "ocr_det"
                    \/ n[1] = m[1] /\ n[2] < m[2]

\* A plausible slip: pairwise greedy, n only has to beat its own partners.
SurvivesPairwise(yolo, ocr, n, t) ==
    /\ n \in Kept(yolo, ocr)
    /\ \A m \in Kept(yolo, ocr) \ {n} :
         DuplicatePair(yolo, ocr, n, m, t) => Better(yolo, ocr, n, m)

\* Steps 4 and 5: n survives when it is the best of its group (alone, when it
\* has no duplicate partner).
Survives(yolo, ocr, n, t) ==
    /\ n \in Kept(yolo, ocr)
    /\ \A m \in Component(yolo, ocr, n, t) \ {n} : Better(yolo, ocr, n, m)

RECURSIVE SurvivorsFrom(_, _, _, _, _)
SurvivorsFrom(yolo, ocr, src, i, t) ==
    LET s == IF src = "yolo" THEN yolo ELSE ocr
    IN  IF i > Len(s) THEN << >>
        ELSE (IF Survives(yolo, ocr, <<src, i>>, t) THEN << <<src, i>> >> ELSE << >>)
             \o SurvivorsFrom(yolo, ocr, src, i + 1, t)

\* Step 6, the order: object survivors in their order, then text survivors.
SurvivorOrder(yolo, ocr, t) ==
    SurvivorsFrom(yolo, ocr, "yolo", 1, t) \o SurvivorsFrom(yolo, ocr, "ocr_det", 1, t)

\* BBoxMerger.merge_detections: the surviving detections, unchanged, in that
\* order, and the statistics (counts in, out, removed).
BBoxMerger_merge_detections(yolo, ocr, t) ==
    LET order == SurvivorOrder(yolo, ocr, t)
        merged == [k \in 1..Len(order) |-> DetOf(yolo, ocr, order[k])]
    IN  << merged,
           [ yolo_count |-> Len(yolo), ocr_count |-> Len(ocr),
             merged_count |-> Len(merged),
             removed |-> Len(yolo) + Len(ocr) - Len(merged) ] >>

\* ------------------------------------------------------------------ main.py
\* assign_intelligent_ids, one sequence: position i gets prefix + f"{i:03d}"
\* under key, and the detector's own 'id' is removed.
AssignIds(dets, key, prefix) ==
    [i \in 1..Len(dets) |-> Del(Put(dets[i], key, prefix \o Fmt03d(i)), "id")]

assign_intelligent_ids(yolo, ocr) ==
    << AssignIds(yolo, "y_id", "Y"), AssignIds(ocr, "o_id", "O") >>

\* Keys copied by the first loop of merge_detections, and keys never copied.
copied_first == {"bbox", "type", "source", "confidence"}
excluded_fields ==
    { "id", "merged_id", "merge_id", "source_ids", "relationship", "original_id",
      "yolo_id", "ocr_id", "y_id", "o_id", "m_id",
      "bbox", "type", "source", "confidence" }

\* A plausible slip: the enumerate index used as it is, without the + 1.
MergedIdFromZero(i) == "M" \o Fmt03d(i - 1)

\* f"M{i+1:03d}" for the 0-based enumerate index: i here is the 1-based position.
MergedId(i) == "M" \o Fmt03d(i)

\* A plausible slip: a literal fallback that forgets the position.
FallbackIdFixed(prefix, i) == prefix \o Fmt03d(1)

\* The default of detection.get('y_id', f"Y{i+1:03d}") and of its o_id twin.
FallbackId(prefix, i) == prefix \o Fmt03d(i)

\* A plausible slip: the two branches write each other's field.
SourceTrackingSwapped(detection, i) ==
    IF detection["source"] = "yolo"
    THEN [ y_id |-> NA, o_id |-> Get(detection, "y_id", FallbackId("Y", i)) ]
    ELSE IF detection["source"] = "ocr_det"
    THEN [ y_id |-> Get(detection, "o_id", FallbackId("O", i)), o_id |-> NA ]
    ELSE [ y_id |-> NA, o_id |-> NA ]

\* Lines 131 to 143: y_id and o_id of the cleaned detection at position i.
SourceTracking(detection, i) ==
    IF detection["source"] = "yolo"
    THEN [ y_id |-> Get(detection, "y_id", FallbackId("Y", i)), o_id |-> NA ]
    ELSE IF detection["source"] = "ocr_det"
    THEN [ y_id |-> NA, o_id |-> Get(detection, "o_id", FallbackId("O", i)) ]
    ELSE [ y_id |-> NA, o_id |-> NA ]

\* The cleaned detection built for position i (1-based) of the parent's output.
CleanedDetection(detection, i) ==
    LET ids == SourceTracking(detection, i)
        keys == {"m_id", "y_id", "o_id"}
                  \cup (copied_first \cap DOMAIN detection)
                  \cup ((DOMAIN detection) \ excluded_fields)
    IN  [ k \in keys |->
            IF k = "m_id" THEN MergedId(i)
            ELSE IF k \in {"y_id", "o_id"} THEN ids[k]
            ELSE detection[k] ]

\* IntelligentBBoxMerger.merge_detections
merge_detections(yolo, ocr, t) ==
    LET parent == BBoxMerger_merge_detections(yolo, ocr, t)
    IN  << [i \in 1..Len(parent[1]) |-> CleanedDetection(parent[1][i], i)],
           parent[2] >>

\* The seraphine detection of lines 299 to 309, with the two ids it carries.
SeraphineDetection(detection, id, merged_id) ==
    [ bbox |-> detection["bbox"],
      id |-> id,
      merged_id |-> merged_id,
      type |-> Get(detection, "type", "unknown"),
      source |-> Get(detection, "source", "merged"),
      confidence |-> Get(detection, "confidence", 10),
      y_id |-> Get(detection, "y_id", NA),
      o_id |-> Get(detection, "o_id", NA) ]

\* A plausible slip: the detector's own id is kept as the grouping id.
convert_keeping_detector_id(merged_detections) ==
    [ i \in 1..Len(merged_detections) |->
        SeraphineDetection(merged_detections[i],
                           Get(merged_detections[i], "id", merged_detections[i]["m_id"]),
                           merged_detections[i]["m_id"]) ]

\* A plausible slip: the reference id is read from the wrong key.
convert_with_wrong_reference(merged_detections) ==
    [ i \in 1..Len(merged_detections) |->
        SeraphineDetection(merged_detections[i], merged_detections[i]["m_id"],
                           Get(merged_detections[i], "y_id", NA)) ]

\* convert_merged_to_seraphine_format
convert_merged_to_seraphine_format(merged_detections) ==
    [ i \in 1..Len(merged_detections) |->
        SeraphineDetection(merged_detections[i], merged_detections[i]["m_id"],
                           merged_detections[i]["m_id"]) ]

\* ---------------------------------------------------------------- grouping
\* The layout grouping engine behind FinalSeraphineProcessor.process_detections.
\* Centres are doubled (x1 + x2, y1 + y2) to stay in the integers.
image_width == 100
image_height == 100
\* span threshold 0.9, as tenths
span_threshold == 9
\* tolerance bands, in doubled pixels
row_tolerance == 10
column_tolerance == 10

Cx2(d) == d.bbox[1] + d.bbox[3]
Cy2(d) == d.bbox[2] + d.bbox[4]
Abs(n) == IF n < 0 THEN -n ELSE n

\* Step 1: wider or taller than the span threshold.
IsLongBox(d) ==
    \/ 10 * (d.bbox[3] - d.bbox[1]) > span_threshold * image_width
    \/ 10 * (d.bbox[4] - d.bbox[2]) > span_threshold * image_height

HOverlap(a, b) == Min(a.bbox[3], b.bbox[3]) > Max(a.bbox[1], b.bbox[1])
VOverlap(a, b) == Min(a.bbox[4], b.bbox[4]) > Max(a.bbox[2], b.bbox[2])

\* i before j in the row scan: vertical centre, horizontal centre, input order.
RowBefore(dets, i, j) ==
    \/ Cy2(dets[i]) < Cy2(dets[j])
    \/ Cy2(dets[i]) = Cy2(dets[j]) /\ Cx2(dets[i]) < Cx2(dets[j])
    \/ Cy2(dets[i]) = Cy2(dets[j]) /\ Cx2(dets[i]) = Cx2(dets[j]) /\ i < j

\* i before j in the column scan: horizontal centre, vertical centre, input order.
ColBefore(dets, i, j) ==
    \/ Cx2(dets[i]) < Cx2(dets[j])
    \/ Cx2(dets[i]) = Cx2(dets[j]) /\ Cy2(dets[i]) < Cy2(dets[j])
    \/ Cx2(dets[i]) = Cx2(dets[j]) /\ Cy2(dets[i]) = Cy2(dets[j]) /\ i < j

\* The indices of S in scan order (rows when byRow, columns otherwise).
Sorted(dets, S, byRow) ==
    [ k \in 1..Cardinality(S) |->
        CHOOSE e \in S :
          Cardinality({ f \in S : IF byRow THEN RowBefore(dets, f, e)
                                  ELSE ColBefore(dets, f, e) }) = k - 1 ]

\* e joins the running cluster c (a sequence of indices, first member first).
Joins(dets, c, e, byRow) ==
    IF byRow
    THEN /\ Abs(Cy2(dets[e]) - Cy2(dets[c[1]])) <= row_tolerance
         /\ \A k \in 1..Len(c) : ~HOverlap(dets[c[k]], dets[e])
    ELSE /\ Abs(Cx2(dets[e]) - Cx2(dets[c[1]])) <= column_tolerance
         /\ \A k \in 1..Len(c) : ~VOverlap(dets[c[k]], dets[e])

\* Steps 3 and 4: one scan over order from position k, extending the last
\* cluster of acc or starting a new one.
RECURSIVE Scan(_, _, _, _, _)
Scan(dets, order, k, acc, byRow) ==
    IF k > Len(order) THEN acc
    ELSE LET e == order[k]
             n == Len(acc)
         IN  IF n > 0 /\ Joins(dets, acc[n], e, byRow)
             THEN Scan(dets, order, k + 1,
                       [acc EXCEPT ![n] = Append(acc[n], e)], byRow)
             ELSE Scan(dets, order, k + 1, Append(acc, <<e>>), byRow)

Flatten(clusters) == UNION { SeqToSet(clusters[k]) : k \in 1..Len(clusters) }

Big(c) == Len(c) >= 2

\* Steps 1 to 5: the groups as [category, members], members in slot order.
\* Long boxes come first, then rows and leftover singletons in row-scan order
\* of their first member, then columns.
Groups(dets) ==
    LET all == 1..Len(dets)
        long == { i \in all : IsLongBox(dets[i]) }
        rest == all \ long
        rowOrder == Sorted(dets, rest, TRUE)
        rows == SelectSeq(Scan(dets, rowOrder, 1, << >>, TRUE), Big)
        inRows == Flatten(rows)
        colOrder == Sorted(dets, rest \ inRows, FALSE)
        cols == SelectSeq(Scan(dets, colOrder, 1, << >>, FALSE), Big)
        inCols == Flatten(cols)
        single == rest \ (inRows \cup inCols)
        hfirst == { rows[k][1] : k \in 1..Len(rows) } \cup single
        horder == Sorted(dets, hfirst, TRUE)
        hgroup(e) == IF e \in single THEN <<e>>
                     ELSE rows[CHOOSE k \in 1..Len(rows) : rows[k][1] = e]
        lorder == Sorted(dets, long, TRUE)
    IN  [k \in 1..Len(lorder) |-> [category |-> "long_box", members |-> <<lorder[k]>>]]
        \o [k \in 1..Len(horder) |-> [category |-> "horizontal", members |-> hgroup(horder[k])]]
        \o [k \in 1..Len(cols) |-> [category |-> "vertical", members |-> cols[k]]]

Letter(category) ==
    IF category = "long_box" THEN "L" ELSE IF category = "horizontal" THEN "H" ELSE "V"

\* Step 6: the label of group k is its category letter and its ordinal within
\* the category.
GroupLabel(groups, k) ==
    Letter(groups[k].category)
      \o ToString(Cardinality({ j \in 1..k : groups[j].category = groups[k].category }))

\* The box object the processor keeps for a detection.
BBoxObject(d) ==
    [ x1 |-> d.bbox[1], y1 |-> d.bbox[2], x2 |-> d.bbox[3], y2 |-> d.bbox[4],
      merged_id |-> d.merged_id, bbox_type |-> d.type, source |-> d.source ]

\* A Python dict whose iteration order matters is a sequence of <<key, value>>
\* pairs with distinct keys, in insertion order.
OD_Keys(od) == { od[i][1] : i \in 1..Len(od) }

OD_Get(od, k) == od[CHOOSE i \in 1..Len(od) : od[i][1] = k][2]

\* od[k] = v: overwrites in place, or appends a new key.
OD_Set(od, k, v) ==
    IF k \in OD_Keys(od)
    THEN [ i \in 1..Len(od) |-> IF od[i][1] = k THEN <<k, v>> ELSE od[i] ]
    ELSE Append(od, <<k, v>>)

\* The <<detection id, GroupSlot id>> pairs of group k from member p on, then
\* of the later groups.
RECURSIVE SlotPairs(_, _, _, _)
SlotPairs(dets, groups, k, p) ==
    IF k > Len(groups) THEN << >>
    ELSE IF p > Len(groups[k].members) THEN SlotPairs(dets, groups, k + 1, 1)
    ELSE << << dets[groups[k].members[p]].id,
               GroupLabel(groups, k) \o "_" \o ToString(p) >> >>
         \o SlotPairs(dets, groups, k, p + 1)

RECURSIVE OD_FromPairs(_, _)
OD_FromPairs(pairs, od) ==
    IF pairs = << >> THEN od
    ELSE OD_FromPairs(Tail(pairs), OD_Set(od, pairs[1][1], pairs[1][2]))

\* FinalSeraphineProcessor.process_detections: final_groups (group id to the
\* boxes of the group, in slot order), bbox_to_group_mapping (detection id to
\* GroupSlot id) and the summary counts.
process_detections(dets) ==
    LET groups == Groups(dets)
        singles == Cardinality({ k \in 1..Len(groups) : Len(groups[k].members) = 1 })
        count(c) == Cardinality({ k \in 1..Len(groups) : groups[k].category = c })
    IN  [ bbox_processor |->
            [ final_groups |->
                [ k \in 1..Len(groups) |->
                    << GroupLabel(groups, k),
                       [ p \in 1..Len(groups[k].members) |->
                           BBoxObject(dets[groups[k].members[p]]) ] >> ],
              bbox_to_group_mapping |->
                OD_FromPairs(SlotPairs(dets, groups, 1, 1), << >>) ],
          analysis |->
            [ total_groups |-> Len(groups),
              horizontal_groups |-> count("horizontal"),
              vertical_groups |-> count("vertical"),
              long_box_groups |-> count("long_box"),
              singleton_groups |-> singles ] ]

\* The loop of create_seraphine_id_mapping over m_id_to_group.items().
RECURSIVE ReverseMapping(_, _)
ReverseMapping(items, group_to_m_ids) ==
    IF items = << >> THEN group_to_m_ids
    ELSE LET m_id == items[1][1]
             group_label == items[1][2]
             started == IF group_label \in OD_Keys(group_to_m_ids)
                        THEN group_to_m_ids
                        ELSE OD_Set(group_to_m_ids, group_label, << >>)
         IN  ReverseMapping(Tail(items),
                 OD_Set(started, group_label,
                        Append(OD_Get(started, group_label), m_id)))

\* create_seraphine_id_mapping
create_seraphine_id_mapping(seraphine_analysis) ==
    LET m_id_to_group == seraphine_analysis.bbox_processor.bbox_to_group_mapping
        added == [ m_id_to_group_mapping |-> m_id_to_group,
                   group_to_m_ids_mapping |-> ReverseMapping(m_id_to_group, << >>),
                   total_m_ids_grouped |-> Len(m_id_to_group),
                   seraphine_timing |-> 0 ]
    IN  [ x \in (DOMAIN seraphine_analysis) \cup DOMAIN added |->
            IF x \in DOMAIN added THEN added[x] ELSE seraphine_analysis[x] ]

\* run_seraphine_grouping: None for an empty input.
run_seraphine_grouping(merged_detections) ==
    IF IsNone(merged_detections) THEN NoneObj
    ELSE create_seraphine_id_mapping(
             process_detections(convert_merged_to_seraphine_format(merged_detections)))

\* ---------------------------------------------------- pipeline_exporter.py
\* The lookup m_id -> {y_id, o_id, source, type} of the original detections;
\* dict.get without a default yields None.
RECURSIVE MIdToOriginal(_, _)
MIdToOriginal(dets, od) ==
    IF dets = << >> THEN od
    ELSE MIdToOriginal(Tail(dets),
           OD_Set(od, dets[1]["m_id"],
                  [ y_id |-> Get(dets[1], "y_id", None),
                    o_id |-> Get(dets[1], "o_id", None),
                    source |-> Get(dets[1], "source", "unknown"),
                    type |-> Get(dets[1], "type", "unknown") ]))

\* The record of one box (lines 40 to 52).
EnhancedRecord(bbox, m_id_to_original) ==
    LET original_data == IF bbox.merged_id \in OD_Keys(m_id_to_original)
                         THEN OD_Get(m_id_to_original, bbox.merged_id)
                         ELSE [ k \in {} |-> None ]
    IN  [ bbox |-> << bbox.x1, bbox.y1, bbox.x2, bbox.y2 >>,
          g_icon_name |-> Get(bbox, "g_icon_name", "unanalyzed"),
          g_brief |-> Get(bbox, "g_brief", "Not analyzed"),
          m_id |-> bbox.merged_id,
          y_id |-> Get(original_data, "y_id", None),
          o_id |-> Get(original_data, "o_id", None),
          type |-> Get(original_data, "type", bbox.bbox_type),
          source |-> Get(original_data, "source", bbox.source) ]

RECURSIVE EnhancedItems(_, _, _, _, _)
EnhancedItems(group_id, boxes, i, m_id_to_original, od) ==
    IF i > Len(boxes) THEN od
    ELSE EnhancedItems(group_id, boxes, i + 1, m_id_to_original,
           OD_Set(od, group_id \o "_" \o ToString(i),
                  EnhancedRecord(boxes[i], m_id_to_original)))

RECURSIVE EnhancedGroups(_, _, _)
EnhancedGroups(final_groups, m_id_to_original, od) ==
    IF final_groups = << >> THEN od
    ELSE EnhancedGroups(Tail(final_groups), m_id_to_original,
           OD_Set(od, final_groups[1][1],
                  EnhancedItems(final_groups[1][1], final_groups[1][2], 1,
                                m_id_to_original, << >>)))

\* create_enhanced_seraphine_structure, for an analysis that is not None:
\* group id -> item id -> record.
create_enhanced_seraphine_structure(seraphine_analysis, original_merged_detections) ==
    IF "bbox_processor" \notin DOMAIN seraphine_analysis THEN << >>
    ELSE EnhancedGroups(seraphine_analysis.bbox_processor.final_groups,
                        MIdToOriginal(original_merged_detections, << >>), << >>)

\* ------------------------------------------------------ semantic labeling
\* All GroupSlot ids of an analysis, in group and slot order.
SlotIds(seraphine_analysis) ==
    LET m == seraphine_analysis.bbox_processor.bbox_to_group_mapping
    IN  [ i \in 1..Len(m) |-> m[i][2] ]

\* What run_gemini_analysis returns when it returns a result: an annotation
\* (name, brief) for each slot of labelled, a subsequence of the slots.
GeminiResults(labelled) ==
    [ total_icons_found |-> Len(labelled),
      annotations |->
        [ i \in 1..Len(labelled) |->
            << labelled[i], [ name |-> "icon " \o labelled[i], brief |-> "labelled" ] >> ] ]

\* A slot id no analysis of this size holds: a stale or invented key.
orphan_key == "H9_1"

\* The annotation maps the labeler can return for an analysis: every slot,
\* every slot but the first (a partial run), only an orphan key, or a partial
\* run with an orphan key.
PossibleLabellings(seraphine_analysis) ==
    LET slots == SlotIds(seraphine_analysis)
    IN  { slots, Tail(slots), << orphan_key >>, Append(Tail(slots), orphan_key) }

\* A plausible slip: the new name is added to the one already there.
AnnotateBoxesAppending(group_id, boxes, annotations) ==
    [ i \in 1..Len(boxes) |->
        LET item_id == group_id \o "_" \o ToString(i)
        IN  IF item_id \in OD_Keys(annotations)
            THEN Put(Put(boxes[i], "g_icon_name",
                         Get(boxes[i], "g_icon_name", "") \o OD_Get(annotations, item_id).name),
                     "g_brief", OD_Get(annotations, item_id).brief)
            ELSE boxes[i] ]

\* Merge-back: the annotation fields of the boxes whose slot id is a key of
\* the annotation map are overwritten; everything else is left as it is.
AnnotateBoxes(group_id, boxes, annotations) ==
    [ i \in 1..Len(boxes) |->
        LET item_id == group_id \o "_" \o ToString(i)
        IN  IF item_id \in OD_Keys(annotations)
            THEN Put(Put(boxes[i], "g_icon_name", OD_Get(annotations, item_id).name),
                     "g_brief", OD_Get(annotations, item_id).brief)
            ELSE boxes[i] ]

\* The annotation keys that are no slot id of the analysis, in the order of
\* the map: one AnnotationMergeWarning is signalled for each.
OrphanKey(seraphine_analysis, entry) ==
    entry[1] \notin SeqToSet(SlotIds(seraphine_analysis))

\* A plausible slip: the warning is raised once per entry of the map.
AnnotationMergeWarningsPerEntry(seraphine_analysis, gemini_results) ==
    [ i \in 1..Len(gemini_results.annotations) |-> gemini_results.annotations[i][1] ]

AnnotationMergeWarnings(seraphine_analysis, gemini_results) ==
    LET orphan(entry) == OrphanKey(seraphine_analysis, entry)
        found == SelectSeq(gemini_results.annotations, orphan)
    IN  [ i \in 1..Len(found) |-> found[i][1] ]

\* integrate_gemini_results
integrate_gemini_results(seraphine_analysis, gemini_results) ==
    LET fg == seraphine_analysis.bbox_processor.final_groups
        annotated == [ k \in 1..Len(fg) |->
                         << fg[k][1],
                            AnnotateBoxes(fg[k][1], fg[k][2], gemini_results.annotations) >> ]
        processor == [ seraphine_analysis.bbox_processor EXCEPT !.final_groups = annotated ]
    IN  Put(Put(seraphine_analysis, "bbox_processor", processor),
            "seraphine_gemini_groups", annotated)

\* -------------------------------------------------------------------- state
VARIABLES
    pc,                   \* where main() (or the merger call) stands
    config,               \* the loaded configuration
    yolo_output,          \* what the object detector returns for the image
    ocr_output,           \* what the text detector returns for the image
    detection_results,    \* result of run_parallel_detection_and_merge
    seraphine_analysis,   \* result of run_seraphine_grouping, later integrated
    grouped_image_paths,  \* result of create_grouped_images
    gemini_results,       \* result of run_gemini_analysis
    labeling_failure,     \* which labeling call raised: "none", "run", "integrate"
    error,                \* the step whose exception reached main's handler
    exported,             \* what save_enhanced_pipeline_json wrote
    result,               \* what main() returned
    merger_call,          \* a call of IntelligentBBoxMerger.merge_detections
    yolo_status,          \* the object detector's task: idle, running, done, failed
    ocr_status,           \* the text detector's task: idle, running, done, failed
    fusion_input,         \* the two sequences the merge consumed, as it saw them
    merge_back,           \* the merge-back calls: how many, the analysis before
                          \* and after the first, the warnings of the last
    output_files,         \* the generated files in the output directory
    \* MacWindowController (macManager/mac_window_test.py)
    mac_pc,               \* where process_command stands
    user_input,           \* the typed line, as its pieces between " : "
    commands,             \* the stripped commands of the chain
    chain_i,              \* 1-based position of the chain loop
    overall_success,      \* the chain's flag
    executed,             \* the calls of _execute_single_command, in order
    reply,                \* what process_command returned
    \* loop.py
    loop_pc,              \* where get_action_sequence_from_gemini stands
    available_buttons,    \* the button labels given to the model
    gemini_answer,        \* what the model answered
    action_sequence,      \* what get_action_sequence_from_gemini returned
    window_geometry,      \* the calculator window: the stored geometry of
                          \* loop.py, the window object of app_test.py
    captured,             \* the region of the screenshot the detections are from
    cv_elements,          \* the detections of that screenshot
    click_i,              \* 1-based position of the click loop
    clicks,               \* the calls of pyautogui.click, in order
    \* MacWindowManager (macManager/mac_window_manager.py)
    wm_pc,                \* "ready" before a call, "done" after it
    windows,              \* the windows on screen, in accessibility order,
                          \* each with the attribute changes applied to it
    wm_call,              \* the call made, its result, and the calls it made
    window_lookup,        \* MacWindowController.window_lookup: key to window
    cursor,               \* the position of the mouse cursor
    mouse_events          \* the mouse events posted, in order

pipeline_vars ==
    << pc, config, yolo_output, ocr_output, detection_results,
       seraphine_analysis, grouped_image_paths, gemini_results,
       labeling_failure, error, exported, result, merger_call,
       yolo_status, ocr_status, fusion_input, merge_back, output_files >>

mac_vars == << mac_pc, user_input, commands, chain_i, overall_success, executed, reply >>

click_vars == << window_geometry, captured, cv_elements, click_i, clicks >>

loop_vars == << loop_pc, available_buttons, gemini_answer, action_sequence, click_vars >>

wm_vars == << wm_pc, windows, wm_call, window_lookup, cursor, mouse_events >>

\* What the pipeline of main.py never touches.
outside_pipeline == << mac_vars, loop_vars, wm_vars >>

vars == << pipeline_vars, mac_vars, loop_vars, wm_vars >>

\* The detector tasks and what the merge was given.
detector_vars == << yolo_status, ocr_status, fusion_input >>

\* config.json: the keys the pipeline reads here.  merger_iou_threshold is
\* the default of create_intelligent_merger or one half.
Configs ==
    [ mode : {"debug", "deploy_mcp"},
      generate_grouped_images : BOOLEAN,
      gemini_enabled : BOOLEAN,
      save_json : BOOLEAN,
      merger_iou_threshold : {default_merger_iou_threshold, 50} ]

\* The window controller before a line was typed.
MacIdle ==
    /\ mac_pc = "idle"
    /\ user_input = << >>
    /\ commands = << >>
    /\ chain_i = 0
    /\ overall_success = TRUE
    /\ executed = << >>
    /\ reply = NoneObj

\* The window manager with no call made.
WmIdle ==
    /\ wm_pc = "idle"
    /\ windows = << >>
    /\ wm_call = NoneObj
    /\ window_lookup = << >>
    /\ cursor = << 1, 1 >>
    /\ mouse_events = << >>

\* loop.py before the model is asked.
LoopIdle ==
    /\ loop_pc = "idle"
    /\ available_buttons = {}
    /\ gemini_answer = NoneObj
    /\ action_sequence = NoneObj
    /\ window_geometry = NoneObj
    /\ captured = NoneObj
    /\ cv_elements = << >>
    /\ click_i = 0
    /\ clicks = << >>

Init ==
    /\ MacIdle
    /\ LoopIdle
    /\ WmIdle
    /\ pc = "start"
    /\ config \in Configs
    /\ \E yb \in InjSeqs(YoloBoxes, MaxDet) : yolo_output = RawSeq(yb, "yolo")
    /\ \E ob \in InjSeqs(OcrBoxes, MaxDet) : ocr_output = RawSeq(ob, "ocr_det")
    /\ detection_results = NoneObj
    /\ seraphine_analysis = NoneObj
    /\ grouped_image_paths = NoneObj
    /\ gemini_results = NoneObj
    /\ labeling_failure = "none"
    /\ error = ""
    /\ exported = NoneObj
    /\ result = NoneObj
    /\ merger_call = NoneObj
    /\ yolo_status = "idle"
    /\ ocr_status = "idle"
    /\ fusion_input = NoneObj
    /\ merge_back = NoneObj
    /\ output_files = {}

main_vars == << detection_results, seraphine_analysis, grouped_image_paths,
                gemini_results, labeling_failure, error, exported, result >>

\* ------------------------------------------- IntelligentBBoxMerger in use
\* create_intelligent_merger(config).merge_detections(yolo, ocr), on the
\* detectors' output as it is or after assign_intelligent_ids.  The merger
\* reads merger_iou_threshold only, so the call is taken from the
\* configurations that differ in nothing else.
MergerInput(tagged) ==
    IF tagged THEN assign_intelligent_ids(yolo_output, ocr_output)
    ELSE << yolo_output, ocr_output >>

CallMergeDetections ==
    /\ pc = "start"
    /\ config.mode = "debug"
    /\ ~config.generate_grouped_images /\ ~config.gemini_enabled /\ ~config.save_json
    /\ \E tagged \in BOOLEAN :
         LET out == merge_detections(MergerInput(tagged)[1], MergerInput(tagged)[2],
                                     config.merger_iou_threshold)
         IN  merger_call' = [ tagged |-> tagged, merged |-> out[1],
                              merge_stats |-> out[2], previous |-> << >> ]
    /\ pc' = "merged"
    /\ UNCHANGED << config, yolo_output, ocr_output, main_vars, detector_vars, merge_back >>
    /\ UNCHANGED << output_files, outside_pipeline >>

\* The same call once more on the same input.
RepeatMergeDetections ==
    /\ pc = "merged"
    /\ LET out == merge_detections(MergerInput(merger_call.tagged)[1],
                                   MergerInput(merger_call.tagged)[2],
                                   config.merger_iou_threshold)
       IN  merger_call' = [ merger_call EXCEPT !.merged = out[1],
                                               !.merge_stats = out[2],
                                               !.previous = merger_call.merged ]
    /\ pc' = "merged_again"
    /\ UNCHANGED << config, yolo_output, ocr_output, main_vars, detector_vars, merge_back >>
    /\ UNCHANGED << output_files, outside_pipeline >>

\* ------------------------------------------------------------------ main()
\* Lines 491 to 510: load_configuration, then the deploy-mode overrides.
MainLoadConfiguration ==
    /\ pc = "start"
    /\ \E loaded \in BOOLEAN :
         IF loaded
         THEN /\ config' = IF config.mode = "deploy_mcp"
                           THEN [config EXCEPT !.save_json = FALSE]
                           ELSE config
              /\ pc' = "load_image"
              /\ UNCHANGED error
         ELSE /\ pc' = "done"
              /\ error' = "configuration"
              /\ UNCHANGED config
    /\ UNCHANGED << yolo_output, ocr_output, detection_results, seraphine_analysis,
                    grouped_image_paths, gemini_results, labeling_failure,
                    exported, result, merger_call, detector_vars, merge_back >>
    /\ UNCHANGED << output_files, outside_pipeline >>

\* Lines 515 to 519: load_image_opencv.
MainLoadImage ==
    /\ pc = "load_image"
    /\ \E loaded \in BOOLEAN :
         IF loaded
         THEN pc' = "detect" /\ UNCHANGED error
         ELSE pc' = "done" /\ error' = "image"
    /\ UNCHANGED << config, yolo_output, ocr_output, detection_results,
                    seraphine_analysis, grouped_image_paths, gemini_results,
                    labeling_failure, exported, result, merger_call, detector_vars, merge_back >>
    /\ UNCHANGED << output_files, outside_pipeline >>

\* ParallelProcessor.process_image followed by lines 200 to 231.  The merged
\* entries are either the detectors' dicts themselves (aliased) or copies of
\* them: assign_intelligent_ids and the m_id assignment write in place, so an
\* aliased entry shows both writes and a copy only the m_id.
DetectionResults(aliased) ==
    LET t == config.merger_iou_threshold
        order == SurvivorOrder(yolo_output, ocr_output, t)
        parent == BBoxMerger_merge_detections(yolo_output, ocr_output, t)
        tagged == assign_intelligent_ids(yolo_output, ocr_output)
        merged == [ k \in 1..Len(order) |->
                      Put(IF aliased THEN DetOf(tagged[1], tagged[2], order[k])
                          ELSE parent[1][k],
                          "m_id", MergedId(k)) ]
        seen(src, dets) ==
            [ i \in 1..Len(dets) |->
                IF aliased /\ \E k \in 1..Len(order) : order[k] = <<src, i>>
                THEN merged[CHOOSE k \in 1..Len(order) : order[k] = <<src, i>>]
                ELSE dets[i] ]
    IN  [ yolo_detections |-> seen("yolo", tagged[1]),
          ocr_detections |-> seen("ocr_det", tagged[2]),
          merged_detections |-> merged,
          merge_stats |-> parent[2] ]

\* Step 1, line 525, inside ParallelProcessor.process_image: the two detector
\* tasks are started side by side.
MainStartDetectors ==
    /\ pc = "detect"
    /\ yolo_status' = "running"
    /\ ocr_status' = "running"
    /\ pc' = "join"
    /\ UNCHANGED << config, yolo_output, ocr_output, main_vars, merger_call,
                    fusion_input, merge_back >>
    /\ UNCHANGED << output_files, outside_pipeline >>

\* The object detector's task ends: with its detections, or with an error.
YoloDetector ==
    /\ pc = "join"
    /\ yolo_status = "running"
    /\ yolo_status' \in {"done", "failed"}
    /\ UNCHANGED << pc, config, yolo_output, ocr_output, main_vars, merger_call,
                    ocr_status, fusion_input, merge_back >>
    /\ UNCHANGED << output_files, outside_pipeline >>

\* The text detector's task ends: with its detections, or with an error.
OcrDetector ==
    /\ pc = "join"
    /\ ocr_status = "running"
    /\ ocr_status' \in {"done", "failed"}
    /\ UNCHANGED << pc, config, yolo_output, ocr_output, main_vars, merger_call,
                    yolo_status, fusion_input, merge_back >>
    /\ UNCHANGED << output_files, outside_pipeline >>

\* A plausible slip: the merge starts as soon as one task has delivered.
DetectorsJoinedEither == yolo_status = "done" \/ ocr_status = "done"

\* The join before the merge: both tasks have delivered their detections.
DetectorsJoined == yolo_status = "done" /\ ocr_status = "done"

\* A task ended with an error.
DetectorFailed == yolo_status = "failed" \/ ocr_status = "failed"

\* The rest of step 1: the merge, then lines 200 to 231; a detector error
\* leaves run_parallel_detection_and_merge as an exception.
MainDetect ==
    /\ pc = "join"
    /\ \/ /\ DetectorsJoined
          /\ fusion_input' = << yolo_output, ocr_output >>
          /\ \E aliased \in BOOLEAN : detection_results' = DetectionResults(aliased)
          /\ pc' = "group"
          /\ UNCHANGED error
       \/ /\ DetectorFailed
          /\ pc' = "except"
          /\ error' = "detection"
          /\ UNCHANGED << detection_results, fusion_input >>
    /\ UNCHANGED << config, yolo_output, ocr_output, seraphine_analysis,
                    grouped_image_paths, gemini_results, labeling_failure,
                    exported, result, merger_call, yolo_status, ocr_status,
                    merge_back >>
    /\ UNCHANGED << output_files, outside_pipeline >>

\* Step 2, line 528.
MainGrouping ==
    /\ pc = "group"
    /\ seraphine_analysis' = run_seraphine_grouping(detection_results.merged_detections)
    /\ pc' = "images"
    /\ UNCHANGED << config, yolo_output, ocr_output, detection_results,
                    grouped_image_paths, gemini_results, labeling_failure, error,
                    exported, result, merger_call, detector_vars, merge_back >>
    /\ UNCHANGED << output_files, outside_pipeline >>

\* create_grouped_images past line 56: generate_images writes the group
\* images into the output directory; the call returns the paths, or an error
\* of a later write (or of the glob) leaves it with an image already there.
GroupedImagesWritten ==
    /\ output_files' = output_files \cup {"combined_groups_1.png"}
    /\ \/ /\ grouped_image_paths' = << "combined_groups_1.png" >>
          /\ pc' = "gemini"
          /\ UNCHANGED error
       \/ /\ pc' = "except"
          /\ error' = "grouped_images"
          /\ UNCHANGED grouped_image_paths

\* Step 3, lines 531 to 551.  create_grouped_images calls .get on the analysis,
\* which raises when the analysis is None.
MainGroupedImages ==
    /\ pc = "images"
    /\ IF ~config.generate_grouped_images
       THEN pc' = "gemini" /\ UNCHANGED << grouped_image_paths, error, output_files >>
       ELSE IF IsNone(seraphine_analysis)
       THEN /\ pc' = "except" /\ error' = "grouped_images"
            /\ UNCHANGED << grouped_image_paths, output_files >>
       ELSE GroupedImagesWritten
    /\ UNCHANGED << config, yolo_output, ocr_output, detection_results,
                    seraphine_analysis, gemini_results, labeling_failure,
                    exported, result, merger_call, detector_vars, merge_back >>
    /\ UNCHANGED outside_pipeline

\* Step 4, lines 554 to 559: run_gemini_analysis raises, returns None, or
\* returns annotations; an exception is swallowed at line 564.
MainGeminiAnalysis ==
    /\ pc = "gemini"
    /\ IF ~config.gemini_enabled
       THEN pc' = "output" /\ UNCHANGED << gemini_results, labeling_failure >>
       ELSE \/ pc' = "output" /\ labeling_failure' = "run" /\ UNCHANGED gemini_results
            \/ pc' = "output" /\ UNCHANGED << gemini_results, labeling_failure >>
            \/ /\ ~IsNone(seraphine_analysis)
               /\ \E labelled \in PossibleLabellings(seraphine_analysis) :
                    gemini_results' = GeminiResults(labelled)
               /\ pc' = "integrate"
               /\ UNCHANGED labeling_failure
    /\ UNCHANGED << config, yolo_output, ocr_output, detection_results,
                    seraphine_analysis, grouped_image_paths, error, exported,
                    result, merger_call, detector_vars, merge_back >>
    /\ UNCHANGED << output_files, outside_pipeline >>

\* Lines 561 to 565: integrate_gemini_results returns the integrated analysis
\* or raises, and then the assignment at line 562 does not happen.
MainIntegrate ==
    /\ pc = "integrate"
    /\ \/ /\ seraphine_analysis' = integrate_gemini_results(seraphine_analysis, gemini_results)
          /\ merge_back' =
               [ applications |-> 1,
                 before |-> seraphine_analysis,
                 once |-> seraphine_analysis',
                 warnings |-> AnnotationMergeWarnings(seraphine_analysis, gemini_results) ]
          /\ UNCHANGED labeling_failure
       \/ /\ labeling_failure' = "integrate"
          /\ UNCHANGED << seraphine_analysis, merge_back >>
    /\ pc' = "output"
    /\ UNCHANGED << config, yolo_output, ocr_output, detection_results,
                    grouped_image_paths, gemini_results, error, exported,
                    result, merger_call, detector_vars >>
    /\ UNCHANGED << output_files, outside_pipeline >>

\* The same annotation map is merged back once more (results arriving again)
\* before the output is built.
MergeBackAgain ==
    /\ pc = "output"
    /\ ~IsNone(merge_back)
    /\ merge_back.applications < MaxMergeBack
    /\ seraphine_analysis' = integrate_gemini_results(seraphine_analysis, gemini_results)
    /\ merge_back' =
         [ merge_back EXCEPT
             !.applications = @ + 1,
             !.warnings = AnnotationMergeWarnings(seraphine_analysis, gemini_results) ]
    /\ UNCHANGED << pc, config, yolo_output, ocr_output, detection_results,
                    grouped_image_paths, gemini_results, labeling_failure, error,
                    exported, result, merger_call, detector_vars >>
    /\ UNCHANGED << output_files, outside_pipeline >>

\* Lines 574 to 591: shutil.rmtree empties the output directory, then the
\* deploy-mode return value is built.  seraphine_analysis.get raises when the
\* analysis is None.
MainDeployOutput ==
    /\ pc = "output"
    /\ config.mode = "deploy_mcp"
    /\ output_files' = {}
    /\ IF IsNone(seraphine_analysis)
       THEN pc' = "except" /\ error' = "output" /\ UNCHANGED result
       ELSE /\ LET field_name == IF ~IsNone(gemini_results)
                                 THEN "seraphine_gemini_groups" ELSE "seraphine_groups"
               IN  result' =
                     [ total_icons_found |->
                         IF ~IsNone(gemini_results) THEN gemini_results.total_icons_found
                         ELSE 0,
                       field_name |-> field_name,
                       groups |-> Get(seraphine_analysis, field_name,
                                      seraphine_analysis.analysis) ]
            /\ pc' = "done"
            /\ UNCHANGED error
    /\ UNCHANGED << config, yolo_output, ocr_output, detection_results,
                    seraphine_analysis, grouped_image_paths, gemini_results,
                    labeling_failure, exported, merger_call, detector_vars, merge_back >>
    /\ UNCHANGED outside_pipeline

\* save_enhanced_pipeline_json, for an analysis that is not None.
SavedJson ==
    [ field_name |-> IF ~IsNone(gemini_results)
                     THEN "seraphine_gemini_groups" ELSE "seraphine_groups",
      groups |-> create_enhanced_seraphine_structure(
                     seraphine_analysis, detection_results.merged_detections),
      merged_count |-> Len(detection_results.merged_detections) ]

\* Lines 593 to 612: save_enhanced_pipeline_json, create_visualizations (off:
\* save_visualizations is not set), display_enhanced_pipeline_summary, return.
\* Both the exporter and the summary dereference the analysis.
MainDebugOutput ==
    /\ pc = "output"
    /\ config.mode = "debug"
    /\ IF IsNone(seraphine_analysis)
       THEN pc' = "except" /\ error' = "output" /\ UNCHANGED << result, exported, output_files >>
       ELSE /\ exported' = IF config.save_json THEN SavedJson ELSE NoneObj
            /\ output_files' = output_files \cup
                                 (IF config.save_json THEN {"word_enhanced_v1.json"} ELSE {})
            /\ result' = [ detection_results |-> detection_results,
                           seraphine_analysis |-> seraphine_analysis,
                           gemini_results |-> gemini_results,
                           grouped_image_paths |-> grouped_image_paths ]
            /\ pc' = "done"
            /\ UNCHANGED error
    /\ UNCHANGED << config, yolo_output, ocr_output, detection_results,
                    seraphine_analysis, grouped_image_paths, gemini_results,
                    labeling_failure, merger_call, detector_vars, merge_back >>
    /\ UNCHANGED outside_pipeline

\* A plausible slip: the handler answers with an empty result set instead.
MainExceptWithFallback ==
    /\ pc = "except"
    /\ result' = [ detection_results |-> [ merged_detections |-> << >> ],
                   seraphine_analysis |-> NoneObj,
                   gemini_results |-> NoneObj,
                   grouped_image_paths |-> NoneObj ]
    /\ pc' = "done"
    /\ UNCHANGED << config, yolo_output, ocr_output, detection_results,
                    seraphine_analysis, grouped_image_paths, gemini_results,
                    labeling_failure, error, exported, merger_call, detector_vars, merge_back >>
    /\ UNCHANGED << output_files, outside_pipeline >>

\* Lines 614 to 626: the handler reports the error and returns None.
MainExcept ==
    /\ pc = "except"
    /\ result' = NoneObj
    /\ pc' = "done"
    /\ UNCHANGED << config, yolo_output, ocr_output, detection_results,
                    seraphine_analysis, grouped_image_paths, gemini_results,
                    labeling_failure, error, exported, merger_call, detector_vars, merge_back >>
    /\ UNCHANGED << output_files, outside_pipeline >>

Next ==
    \/ CallMergeDetections
    \/ RepeatMergeDetections
    \/ MainLoadConfiguration
    \/ MainLoadImage
    \/ MainStartDetectors
    \/ YoloDetector
    \/ OcrDetector
    \/ MainDetect
    \/ MainGrouping
    \/ MainGroupedImages
    \/ MainGeminiAnalysis
    \/ MainIntegrate
    \/ MergeBackAgain
    \/ MainDeployOutput
    \/ MainDebugOutput
    \/ MainExcept

Spec == Init /\ [][Next]_vars

\* The pipeline before main() is started: the state of a run of another
\* program of the repository.
PipelineIdle ==
    /\ pc = "idle"
    /\ config = NoneObj
    /\ yolo_output = << >> /\ ocr_output = << >>
    /\ detection_results = NoneObj /\ seraphine_analysis = NoneObj
    /\ grouped_image_paths = NoneObj /\ gemini_results = NoneObj
    /\ labeling_failure = "none" /\ error = ""
    /\ exported = NoneObj /\ result = NoneObj /\ merger_call = NoneObj
    /\ yolo_status = "idle" /\ ocr_status = "idle"
    /\ fusion_input = NoneObj /\ merge_back = NoneObj
    /\ output_files = {}

\* ------------------------------------- macManager/mac_window_test.py
\* The text between two " : " of a typed line: commands the window manager
\* runs, a command nobody knows, the one-letter commands, and blanks.
ChainPieces == {"cursor", "click 5 5", "nosuch", "q", "r", " "}

\* str.strip() on a piece.
Strip(piece) == IF piece = " " THEN "" ELSE IF piece = "5 " THEN "5" ELSE piece

\* The typed lines: the line itself is stripped before it is split, so its
\* first and last piece are not blank.
UserInputs ==
    { line \in UNION { [1..n -> ChainPieces] : n \in 1..MaxChain } :
        Strip(line[1]) # "" /\ Strip(line[Len(line)]) # "" }

\* The success values _execute_single_command can return for a command: the
\* window manager decides for cursor and click; an empty or unknown command
\* fails.
CommandOutcomes(cmd) ==
    IF cmd \in {"cursor", "click 5 5"} THEN BOOLEAN ELSE {FALSE}

\* process_command up to the chain loop: q, r, a chain, or a single command.
ProcessCommand ==
    /\ mac_pc = "prompt"
    /\ IF Len(user_input) = 1 /\ user_input[1] = "q"
       THEN /\ reply' = [ continue |-> FALSE, message |-> "goodbye" ]
            /\ mac_pc' = "returned"
            /\ UNCHANGED << commands, chain_i, overall_success, executed >>
       ELSE IF Len(user_input) = 1 /\ user_input[1] = "r"
       THEN /\ reply' = [ continue |-> TRUE, message |-> "refreshed" ]
            /\ mac_pc' = "returned"
            /\ UNCHANGED << commands, chain_i, overall_success, executed >>
       ELSE IF Len(user_input) > 1
       THEN /\ commands' = [ i \in 1..Len(user_input) |-> Strip(user_input[i]) ]
            /\ chain_i' = 1
            /\ overall_success' = TRUE
            /\ mac_pc' = "chain"
            /\ UNCHANGED << executed, reply >>
       ELSE /\ \E success \in CommandOutcomes(user_input[1]) :
                 /\ executed' = << [ step |-> 1, cmd |-> user_input[1],
                                     success |-> success ] >>
                 /\ reply' = [ continue |-> TRUE,
                               message |-> IF success THEN "ok" ELSE "failed" ]
            /\ mac_pc' = "returned"
            /\ UNCHANGED << commands, chain_i, overall_success >>
    /\ UNCHANGED << user_input, pipeline_vars, loop_vars, wm_vars >>

\* A plausible slip: a failed command is reported and the loop goes on.
ChainStepWithoutBreak ==
    /\ mac_pc = "chain"
    /\ chain_i <= Len(commands)
    /\ IF commands[chain_i] = ""
       THEN UNCHANGED << executed, overall_success >>
       ELSE \E success \in CommandOutcomes(commands[chain_i]) :
              /\ executed' = Append(executed, [ step |-> chain_i,
                                                cmd |-> commands[chain_i],
                                                success |-> success ])
              /\ overall_success' = (overall_success /\ success)
    /\ chain_i' = chain_i + 1
    /\ UNCHANGED << mac_pc, user_input, commands, reply, pipeline_vars, loop_vars, wm_vars >>

\* One pass of the chain loop (lines 427 to 448): an empty command is skipped,
\* a command is executed, and a failure breaks the loop.
ChainStep ==
    /\ mac_pc = "chain"
    /\ chain_i <= Len(commands)
    /\ IF commands[chain_i] = ""
       THEN /\ chain_i' = chain_i + 1
            /\ UNCHANGED << executed, overall_success, mac_pc >>
       ELSE \E success \in CommandOutcomes(commands[chain_i]) :
              /\ executed' = Append(executed, [ step |-> chain_i,
                                                cmd |-> commands[chain_i],
                                                success |-> success ])
              /\ IF success
                 THEN /\ chain_i' = chain_i + 1
                      /\ UNCHANGED << overall_success, mac_pc >>
                 ELSE /\ overall_success' = FALSE
                      /\ mac_pc' = "stopped"
                      /\ UNCHANGED chain_i
    /\ UNCHANGED << user_input, commands, reply, pipeline_vars, loop_vars, wm_vars >>

\* Lines 450 to 453: the chain's return value.
ChainReturn ==
    /\ \/ mac_pc = "chain" /\ chain_i > Len(commands)
       \/ mac_pc = "stopped"
    /\ reply' = [ continue |-> TRUE,
                  message |-> IF overall_success THEN "completed" ELSE "stopped" ]
    /\ mac_pc' = "returned"
    /\ UNCHANGED << user_input, commands, chain_i, overall_success, executed,
                    pipeline_vars, loop_vars, wm_vars >>

\* A line is typed at the prompt of run_interactive_mode.
ChainInit ==
    /\ PipelineIdle
    /\ LoopIdle
    /\ WmIdle
    /\ mac_pc = "prompt"
    /\ user_input \in UserInputs
    /\ commands = << >>
    /\ chain_i = 0
    /\ overall_success = TRUE
    /\ executed = << >>
    /\ reply = NoneObj

ChainNext ==
    \/ ProcessCommand
    \/ ChainStep
    \/ ChainReturn

ChainSpec == ChainInit /\ [][ChainNext]_vars

\* ------------------------------------------------------------ loop.py
\* Labels the vision pipeline can put on a calculator's buttons; "x" is
\* multiply and "X" is backspace.
Buttons == {"5", "+", "x", "X"}

\* A label of no button on the screen.
invented_label == "sqrt"

\* The items a JSON list of the answer can hold: strings, and a number.
AnswerItems ==
    { [ type |-> "string", text |-> l ] : l \in Buttons \cup {invented_label} }
      \cup { [ type |-> "number", text |-> "5" ] }

AnswerItemSeqs == UNION { [1..n -> AnswerItems] : n \in 0..MaxActions }

\* What generate_content and json.loads can give: the call raises
\* (api_error), the text is no JSON (invalid_json), or the JSON is a scalar, a
\* list, or a dict with or without the key "action_sequence", whose value is
\* a list, a string or null.
GeminiAnswers ==
    { [ kind |-> k, has_key |-> FALSE, value_type |-> "null", items |-> << >> ] :
        k \in {"api_error", "invalid_json", "scalar", "dict"} }
      \cup { [ kind |-> "list", has_key |-> FALSE, value_type |-> "list", items |-> q ] :
                q \in AnswerItemSeqs }
      \cup { [ kind |-> "dict", has_key |-> TRUE, value_type |-> "list", items |-> q ] :
                q \in AnswerItemSeqs }
      \cup { [ kind |-> "dict", has_key |-> TRUE, value_type |-> v, items |-> << >> ] :
                v \in {"string", "null"} }

\* Python's None and a list of labels as one kind of value.
NoSequence == [ is_none |-> TRUE, labels |-> << >> ]

LabelsOf(items) == [ i \in 1..Len(items) |-> items[i].text ]

\* A plausible slip: the list is type-checked and returned without the test
\* of each label against available_buttons.
get_action_sequence_unvalidated(answer, buttons) ==
    IF answer.kind \in {"api_error", "invalid_json"} THEN NoSequence
    ELSE IF ~( (answer.kind = "dict" /\ answer.has_key) \/ answer.kind = "list" )
    THEN NoSequence
    ELSE IF answer.value_type # "list"
            \/ \E i \in 1..Len(answer.items) : answer.items[i].type # "string"
    THEN NoSequence
    ELSE [ is_none |-> FALSE, labels |-> LabelsOf(answer.items) ]

\* get_action_sequence_from_gemini, lines 182 to 232.
get_action_sequence_from_gemini(answer, buttons) ==
    IF answer.kind \in {"api_error", "invalid_json"} THEN NoSequence
    ELSE IF ~( (answer.kind = "dict" /\ answer.has_key) \/ answer.kind = "list" )
    THEN NoSequence
    ELSE IF answer.value_type # "list"
            \/ \E i \in 1..Len(answer.items) : answer.items[i].type # "string"
    THEN NoSequence
    ELSE IF \E i \in 1..Len(answer.items) : answer.items[i].text \notin buttons
    THEN NoSequence
    ELSE [ is_none |-> FALSE, labels |-> LabelsOf(answer.items) ]

\* pyautogui.size().
Screen == [ width |-> 8, height |-> 6 ]

\* Lines 349 to 350, on doubled coordinates: 0 <= x < screen_width and
\* 0 <= y < screen_height.
OnScreen(x2, y2) ==
    /\ 0 <= x2 /\ x2 < 2 * Screen.width
    /\ 0 <= y2 /\ y2 < 2 * Screen.height

\* The calculator window: on the screen, with no width, and partly off the
\* right edge of the screen.
WindowGeometries ==
    { [ present |-> TRUE, left |-> 2, top |-> 1, width |-> 5, height |-> 4 ],
      [ present |-> TRUE, left |-> 2, top |-> 1, width |-> 0, height |-> 4 ],
      [ present |-> TRUE, left |-> 6, top |-> 1, width |-> 5, height |-> 4 ] }

\* The test of lines 258 and 329 (app_test.py 64 and 113): a window with a
\* width and a height.
UsableWindow(geometry) ==
    geometry.present /\ geometry.width > 0 /\ geometry.height > 0

\* Lines 327 to 335: the stored corner, or 0,0 after a full-screen capture.
Offsets(geometry) ==
    IF UsableWindow(geometry) THEN << geometry.left, geometry.top >> ELSE << 0, 0 >>

\* An element of the CV output, its bbox in pixels of the screenshot.
Element(g_icon_name, has_bbox, bbox) ==
    [ g_icon_name |-> g_icon_name, has_bbox |-> has_bbox, bbox |-> bbox ]

\* What the CV pipeline can return for a screenshot of the calculator:
\* multiply and backspace in both orders, an element without a bbox, a label
\* with a trailing blank, and nothing at all.
DetectedElementLists ==
    { << Element("5", TRUE, << 0, 0, 2, 2 >>), Element("+", TRUE, << 2, 0, 5, 2 >>),
         Element("x", TRUE, << 0, 2, 2, 4 >>) >>,
      << Element("x", TRUE, << 0, 2, 2, 4 >>), Element("X", TRUE, << 2, 2, 5, 4 >>),
         Element("5", TRUE, << 0, 0, 2, 2 >>) >>,
      << Element("X", TRUE, << 2, 2, 5, 4 >>), Element("x", TRUE, << 0, 2, 2, 4 >>),
         Element("+", TRUE, << 2, 0, 5, 2 >>) >>,
      << Element("5 ", TRUE, << 0, 0, 2, 2 >>), Element("+", FALSE, << 0, 0, 0, 0 >>),
         Element("x", TRUE, << 0, 2, 2, 4 >>) >>,
      << >> }

\* Twice (bbox[0] + bbox[2]) / 2 and (bbox[1] + bbox[3]) / 2.
DoubleCentre(bbox) == << bbox[1] + bbox[3], bbox[2] + bbox[4] >>

\* str.lower() on a label.
Lower(label) == IF label = "X" THEN "x" ELSE label

\* find_element_in_cv_output, lines 40 to 46: the position of the first
\* element whose stripped, lower-cased name is the stripped, lower-cased
\* target, 0 for None.
find_element_in_cv_output(elements, target_text) ==
    IF \E i \in 1..Len(elements) :
          Lower(Strip(target_text)) = Lower(Strip(elements[i].g_icon_name))
    THEN CHOOSE i \in 1..Len(elements) :
          /\ Lower(Strip(target_text)) = Lower(Strip(elements[i].g_icon_name))
          /\ \A j \in 1..(i - 1) :
                Lower(Strip(target_text)) # Lower(Strip(elements[j].g_icon_name))
    ELSE 0

\* main_task, lines 256 to 313: the screenshot of the stored region, or of
\* the full screen when the region has no size or its capture raised (the
\* stored geometry is then dropped); the CV pipeline on it; the labels.
CaptureScreen ==
    /\ loop_pc = "capture"
    /\ \E region_raised \in BOOLEAN, detected_elements \in DetectedElementLists :
         LET usable == UsableWindow(window_geometry) /\ ~region_raised
         IN  /\ region_raised => UsableWindow(window_geometry)
             /\ captured' = IF usable
                             THEN [ region |-> "window", left |-> window_geometry.left,
                                    top |-> window_geometry.top ]
                             ELSE [ region |-> "screen", left |-> 0, top |-> 0 ]
             /\ window_geometry' = IF usable THEN window_geometry
                                    ELSE [ window_geometry EXCEPT !.present = FALSE ]
             /\ cv_elements' = detected_elements
             /\ available_buttons' =
                   { Strip(detected_elements[i].g_icon_name) : i \in 1..Len(detected_elements) }
                     \ {""}
             /\ loop_pc' = IF available_buttons' = {} THEN "no_buttons" ELSE "ask"
    /\ UNCHANGED << gemini_answer, action_sequence, click_i, clicks,
                    pipeline_vars, mac_vars, wm_vars >>

\* The language model answers the prompt (lines 183 to 186).
GeminiResponds ==
    /\ loop_pc = "ask"
    /\ gemini_answer' \in GeminiAnswers
    /\ loop_pc' = "parse"
    /\ UNCHANGED << available_buttons, action_sequence, click_vars,
                    pipeline_vars, mac_vars, wm_vars >>

\* The answer is parsed and validated, and the function returns to main_task.
ValidateActionSequence ==
    /\ loop_pc = "parse"
    /\ action_sequence' = get_action_sequence_from_gemini(gemini_answer, available_buttons)
    /\ loop_pc' = "validated"
    /\ UNCHANGED << available_buttons, gemini_answer, click_vars,
                    pipeline_vars, mac_vars, wm_vars >>

\* main_task, lines 315 to 320: None or an empty list ends the task, any
\* other sequence enters the click loop.
MainTaskAfterGemini ==
    /\ loop_pc = "validated"
    /\ loop_pc' = IF action_sequence.is_none \/ action_sequence.labels = << >>
                  THEN "returned" ELSE "clicking"
    /\ UNCHANGED << available_buttons, gemini_answer, action_sequence, click_vars,
                    pipeline_vars, mac_vars, wm_vars >>

\* A plausible slip: a click point off the screen skips the label and the
\* loop goes on.
ClickStepSkipping ==
    /\ loop_pc = "clicking"
    /\ LET target_label == action_sequence.labels[click_i]
           e == find_element_in_cv_output(cv_elements, target_label)
       IN  IF e = 0 \/ ~cv_elements[e].has_bbox
           THEN loop_pc' = "not_found" /\ UNCHANGED << clicks, click_i >>
           ELSE LET offsets == Offsets(window_geometry)
                    click == [ label |-> target_label,
                               element |-> cv_elements[e].g_icon_name,
                               offset |-> offsets,
                               region |-> << captured.left, captured.top >>,
                               x2 |-> 2 * offsets[1] + DoubleCentre(cv_elements[e].bbox)[1],
                               y2 |-> 2 * offsets[2] + DoubleCentre(cv_elements[e].bbox)[2] ]
                IN  IF ~OnScreen(click.x2, click.y2)
                    THEN /\ click_i' = click_i + 1
                         /\ loop_pc' = IF click_i = Len(action_sequence.labels)
                                       THEN "returned" ELSE "clicking"
                         /\ UNCHANGED clicks
                    ELSE /\ clicks' = Append(clicks, click)
                         /\ click_i' = click_i + 1
                         /\ loop_pc' = IF click_i = Len(action_sequence.labels)
                                       THEN "returned" ELSE "clicking"
    /\ UNCHANGED << available_buttons, gemini_answer, action_sequence,
                    window_geometry, captured, cv_elements,
                    pipeline_vars, mac_vars, wm_vars >>

\* One pass of the click loop of loop.py, lines 320 to 357, on the stored
\* detections: the element is looked up, the click point is the centre of
\* its bbox plus the offsets, and a missing element or a point off the
\* screen breaks the loop.
ClickStep ==
    /\ loop_pc = "clicking"
    /\ LET target_label == action_sequence.labels[click_i]
           e == find_element_in_cv_output(cv_elements, target_label)
       IN  IF e = 0 \/ ~cv_elements[e].has_bbox
           THEN loop_pc' = "not_found" /\ UNCHANGED << clicks, click_i >>
           ELSE LET offsets == Offsets(window_geometry)
                    click == [ label |-> target_label,
                               element |-> cv_elements[e].g_icon_name,
                               offset |-> offsets,
                               region |-> << captured.left, captured.top >>,
                               x2 |-> 2 * offsets[1] + DoubleCentre(cv_elements[e].bbox)[1],
                               y2 |-> 2 * offsets[2] + DoubleCentre(cv_elements[e].bbox)[2] ]
                IN  IF ~OnScreen(click.x2, click.y2)
                    THEN loop_pc' = "out_of_bounds" /\ UNCHANGED << clicks, click_i >>
                    ELSE /\ clicks' = Append(clicks, click)
                         /\ click_i' = click_i + 1
                         /\ loop_pc' = IF click_i = Len(action_sequence.labels)
                                       THEN "returned" ELSE "clicking"
    /\ UNCHANGED << available_buttons, gemini_answer, action_sequence,
                    window_geometry, captured, cv_elements,
                    pipeline_vars, mac_vars, wm_vars >>

\* One pass of the loop of app_test.py, lines 60 to 131: a screenshot of the
\* window region (or of the screen, when there is no usable window or the
\* region capture raised), the detections of that screenshot, the lookup, and
\* the click at the bbox centre plus the window's corner.
AppTestStep ==
    /\ loop_pc = "app_clicking"
    /\ \E region_raised \in BOOLEAN, detected_elements \in DetectedElementLists :
         LET usable == UsableWindow(window_geometry)
             target_label == action_sequence.labels[click_i]
             e == find_element_in_cv_output(detected_elements, target_label)
         IN  /\ region_raised => usable
             /\ captured' = IF usable /\ ~region_raised
                             THEN [ region |-> "window", left |-> window_geometry.left,
                                    top |-> window_geometry.top ]
                             ELSE [ region |-> "screen", left |-> 0, top |-> 0 ]
             /\ cv_elements' = detected_elements
             /\ IF e = 0 \/ ~detected_elements[e].has_bbox
                THEN loop_pc' = "app_returned" /\ UNCHANGED << clicks, click_i >>
                ELSE LET offsets == IF usable
                                    THEN << window_geometry.left, window_geometry.top >>
                                    ELSE << 0, 0 >>
                     IN  /\ clicks' = Append(clicks,
                               [ label |-> target_label,
                                 element |-> detected_elements[e].g_icon_name,
                                 offset |-> offsets,
                                 region |-> << captured'.left, captured'.top >>,
                                 x2 |-> 2 * offsets[1] + DoubleCentre(detected_elements[e].bbox)[1],
                                 y2 |-> 2 * offsets[2] + DoubleCentre(detected_elements[e].bbox)[2] ])
                         /\ click_i' = click_i + 1
                         /\ loop_pc' = IF click_i = Len(action_sequence.labels)
                                       THEN "app_returned" ELSE "app_clicking"
    /\ UNCHANGED << available_buttons, gemini_answer, action_sequence, window_geometry,
                    pipeline_vars, mac_vars, wm_vars >>

\* loop.py with the calculator prepared and its geometry stored (lines 250 to
\* 252), or app_test.py with its fixed action sequence before its loop (lines
\* 29 to 60), with or without a calculator window.
LoopInit ==
    /\ PipelineIdle
    /\ MacIdle
    /\ WmIdle
    /\ available_buttons = {}
    /\ gemini_answer = NoneObj
    /\ captured = NoneObj
    /\ cv_elements = << >>
    /\ click_i = 1
    /\ clicks = << >>
    /\ \/ /\ loop_pc = "capture"
          /\ window_geometry \in WindowGeometries
          /\ action_sequence = NoneObj
       \/ /\ loop_pc = "app_clicking"
          /\ window_geometry \in WindowGeometries \cup
                { [ present |-> FALSE, left |-> 0, top |-> 0, width |-> 0, height |-> 0 ] }
          /\ action_sequence = [ is_none |-> FALSE, labels |-> << "5", "+" >> ]

LoopNext ==
    \/ CaptureScreen
    \/ GeminiResponds
    \/ ValidateActionSequence
    \/ MainTaskAfterGemini
    \/ ClickStep
    \/ AppTestStep

LoopSpec == LoopInit /\ [][LoopNext]_vars

\* ------------------------------------- macManager/mac_window_manager.py
\* self.displays: the main display, and a smaller one to its left.
Displays ==
    << [ origin |-> [ x |-> 0, y |-> 0 ], size |-> [ width |-> 8, height |-> 6 ] ],
       [ origin |-> [ x |-> -6, y |-> 2 ], size |-> [ width |-> 6, height |-> 5 ] ] >>

\* The windows on screen: two documents of one application with the same
\* title, and a window of another application.
OpenWindows ==
    << [ window_number |-> 41, pid |-> 100, title |-> "Untitled", applied |-> << >> ],
       [ window_number |-> 42, pid |-> 100, title |-> "Untitled", applied |-> << >> ],
       [ window_number |-> 57, pid |-> 200, title |-> "Calculator", applied |-> << >> ] >>

\* is_window_valid and _get_window_info: the position of the window with this
\* number in the window list, 0 when there is none.
WindowIndex(window_number) ==
    IF \E i \in 1..Len(windows) : windows[i].window_number = window_number
    THEN CHOOSE i \in 1..Len(windows) : windows[i].window_number = window_number
    ELSE 0

\* A plausible slip: the centred position is used without the clamp.
CentredUnclamped(origin, size, window_side) ==
    origin + ((size - window_side) \div 2)

\* Lines 780 to 787, for one axis: the centred position, clamped to the
\* display.  // rounds down, also below zero.
CentredOnDisplay(origin, size, window_side) ==
    LET target == origin + ((size - window_side) \div 2)
        max_target == origin + size - window_side
    IN  Max(origin, Min(target, max_target))

\* _find_window_element, lines 1514 to 1529: the first window of the
\* application, whatever the window number.
FindWindowElement(pid, window_number) ==
    CHOOSE i \in 1..Len(windows) :
        /\ windows[i].pid = pid
        /\ \A j \in 1..(i - 1) : windows[j].pid # pid

\* AXUIElementSetAttributeValue or AXUIElementPerformAction on the element
\* found for the window.
Applied(window_number, change) ==
    LET element == FindWindowElement(windows[WindowIndex(window_number)].pid, window_number)
    IN  [ windows EXCEPT ![element].applied = Append(@, change) ]

\* move_window_to_display, lines 759 to 796, with the window bounds the
\* system reports.
MoveWindowToDisplay ==
    /\ wm_pc = "ready"
    /\ \E window_number \in { windows[i].window_number : i \in 1..Len(windows) }
                              \cup {99},   \* 99: a window that was closed
          target_display \in 0..(Len(Displays) + 1),
          window_width \in 1..MaxWindowSide, window_height \in 1..MaxWindowSide :
         LET request == [ window_number |-> window_number,
                          target_display |-> target_display,
                          window_width |-> window_width,
                          window_height |-> window_height ]
         IN  IF WindowIndex(window_number) = 0
                \/ target_display < 1 \/ target_display > Len(Displays)
             THEN /\ wm_call' = [ op |-> "move_window_to_display", request |-> request,
                                  ok |-> FALSE, moves |-> << >> ]
                  /\ UNCHANGED windows
             ELSE LET d == Displays[target_display]
                      target_x == CentredOnDisplay(d.origin.x, d.size.width, window_width)
                      target_y == CentredOnDisplay(d.origin.y, d.size.height, window_height)
                  IN  /\ wm_call' = [ op |-> "move_window_to_display", request |-> request,
                                      ok |-> TRUE,
                                      moves |-> << << window_number, target_x, target_y >> >> ]
                      /\ windows' = Applied(window_number, << "position", target_x, target_y >>)
    /\ wm_pc' = "done"
    /\ UNCHANGED << window_lookup, cursor, mouse_events, pipeline_vars, mac_vars, loop_vars >>

\* minimize_window, maximize_window, close_window, bring_to_foreground,
\* resize_window and move_window: the window must be valid, the change is
\* made on the element _find_window_element returns.
WindowOperation ==
    /\ wm_pc = "ready"
    /\ \E window_number \in { windows[i].window_number : i \in 1..Len(windows) } \cup {99},
          op \in {"minimize_window", "maximize_window", "close_window",
                  "bring_to_foreground", "resize_window", "move_window"} :
         IF WindowIndex(window_number) = 0
         THEN /\ wm_call' = [ op |-> op, request |-> [ window_number |-> window_number ],
                              ok |-> FALSE ]
              /\ UNCHANGED windows
         ELSE /\ wm_call' = [ op |-> op, request |-> [ window_number |-> window_number ],
                              ok |-> TRUE ]
              /\ windows' = Applied(window_number, << op, 0, 0 >>)
    /\ wm_pc' = "done"
    /\ UNCHANGED << window_lookup, cursor, mouse_events, pipeline_vars, mac_vars, loop_vars >>

\* The decimal digits of a number, as characters.
RECURSIVE Digits(_)
Digits(n) == IF n < 10 THEN << ToString(n) >> ELSE Digits(n \div 10) \o << ToString(n % 10) >>

\* hashlib.md5(title).hexdigest()[:8], as characters.
TitleHash(title) ==
    IF title = "Untitled" THEN << "9", "1", "1", "a", "f", "7", "a", "a" >>
    ELSE << "c", "c", "8", "4", "f", "a", "8", "2" >>   \* "Calculator"

\* Lines 190 to 193: the string f"{window_number}_{pid}_{title_hash}", as
\* characters.
_generate_window_id(window_number, pid, title) ==
    Digits(window_number) \o << "_" >> \o Digits(pid) \o << "_" >> \o TitleHash(title)

\* window_id[-8:].
LastEight(window_id) ==
    IF Len(window_id) <= 8 THEN window_id
    ELSE SubSeq(window_id, Len(window_id) - 7, Len(window_id))

\* refresh_windows, lines 22 to 38: every window is written under the last
\* eight characters of its id, a later window over an earlier one.
RefreshWindows ==
    /\ wm_pc = "ready"
    /\ LET id(i) == _generate_window_id(windows[i].window_number, windows[i].pid,
                                        windows[i].title)
           keys == { LastEight(id(i)) : i \in 1..Len(windows) }
           last(k) == CHOOSE i \in 1..Len(windows) :
                        /\ LastEight(id(i)) = k
                        /\ \A j \in (i + 1)..Len(windows) : LastEight(id(j)) # k
       IN  window_lookup' =
             [ k \in keys |-> [ full_id |-> id(last(k)),
                                window_number |-> windows[last(k)].window_number ] ]
    /\ wm_call' = [ op |-> "refresh_windows", ok |-> TRUE ]
    /\ wm_pc' = "done"
    /\ UNCHANGED << windows, cursor, mouse_events, pipeline_vars, mac_vars, loop_vars >>

\* str.replace(old, new) on a string given as its characters.
RECURSIVE Replace(_, _, _)
Replace(text, old, new) ==
    IF text = << >> THEN << >>
    ELSE (IF Head(text) = old THEN new ELSE << Head(text) >>) \o Replace(Tail(text), old, new)

\* Line 1371: text.replace('"', '\\"').replace('\\', '\\\\').
EscapeText(text) ==
    Replace(Replace(text, "\"", << "\\", "\"" >>), "\\", << "\\", "\\" >>)

\* What AppleScript reads in keystroke "..." from the opening quote on: a
\* backslash takes the next character as it is, a quote ends the literal.
\* closed_at is the position of the ending quote in the text after the
\* opening quote, 0 when the literal never ends.
RECURSIVE ReadLiteral(_, _, _)
ReadLiteral(rest, i, value) ==
    IF i > Len(rest) THEN [ closed_at |-> 0, value |-> value ]
    ELSE IF rest[i] = "\"" THEN [ closed_at |-> i, value |-> value ]
    ELSE IF rest[i] = "\\"
    THEN IF i = Len(rest) THEN [ closed_at |-> 0, value |-> value ]
         ELSE ReadLiteral(rest, i + 2, Append(value, rest[i + 1]))
    ELSE ReadLiteral(rest, i + 1, Append(value, rest[i]))

\* send_text, lines 1337 to 1379: the keyboard events when they are
\* available and do not raise, else the AppleScript built from the escaped
\* text.
SendText ==
    /\ wm_pc = "ready"
    /\ \E text \in UNION { [1..n -> {"a", "\"", "\\"}] : n \in 0..MaxText },
          events_work \in BOOLEAN :
         wm_call' =
           IF events_work
           THEN [ op |-> "send_text", via |-> "events", text |-> text,
                  after_quote |-> << >> ]
           ELSE [ op |-> "send_text", via |-> "applescript", text |-> text,
                  after_quote |-> EscapeText(text) \o << "\"" >> ]
    /\ wm_pc' = "done"
    /\ UNCHANGED << windows, window_lookup, cursor, mouse_events, pipeline_vars, mac_vars, loop_vars >>

\* send_mouse_click (lines 860 to 921) and send_mouse_long_click (lines 961
\* to 1014): the cursor is moved when coordinates are given, then the button
\* name is looked up in button_map, then the down and up events are posted.
SendMouseClick ==
    /\ wm_pc = "ready"
    /\ \E op \in {"send_mouse_click", "send_mouse_long_click"},
          button \in {"left", "right", "middle", "side"},
          target \in { [ given |-> FALSE, x |-> 0, y |-> 0 ],
                       [ given |-> TRUE, x |-> 3, y |-> 4 ] },
          cursor_moves \in BOOLEAN :
         LET request == [ button |-> button, target |-> target, cursor_before |-> cursor ]
             point == IF target.given THEN << target.x, target.y >> ELSE cursor
         IN  /\ ~cursor_moves => target.given
             /\ IF target.given /\ ~cursor_moves
                THEN /\ wm_call' = [ op |-> op, request |-> request, ok |-> FALSE ]
                     /\ UNCHANGED << cursor, mouse_events >>
                ELSE /\ cursor' = point
                     /\ IF button \notin {"left", "right", "middle"}
                        THEN /\ wm_call' = [ op |-> op, request |-> request, ok |-> FALSE ]
                             /\ UNCHANGED mouse_events
                        ELSE /\ wm_call' = [ op |-> op, request |-> request, ok |-> TRUE ]
                             /\ mouse_events' = mouse_events \o
                                   << [ event |-> "down", button |-> button, at |-> point ],
                                      [ event |-> "up", button |-> button, at |-> point ] >>
    /\ wm_pc' = "done"
    /\ UNCHANGED << windows, window_lookup, pipeline_vars, mac_vars, loop_vars >>

\* A MacWindowManager with the windows on screen, before a call.
WmInit ==
    /\ PipelineIdle
    /\ MacIdle
    /\ LoopIdle
    /\ wm_pc = "ready"
    /\ windows = OpenWindows
    /\ wm_call = NoneObj
    /\ window_lookup = << >>
    /\ cursor = << 1, 1 >>
    /\ mouse_events = << >>

WmNext ==
    \/ MoveWindowToDisplay
    \/ WindowOperation
    \/ RefreshWindows
    \/ SendText
    \/ SendMouseClick

WmSpec == WmInit /\ [][WmNext]_vars

\* ================================================================== claims
\* i written with three decimal digits, low digits by division: the id suffix
\* a reader expects at position i.
ThreeDigits(i) ==
    ToString(i \div 100) \o ToString((i \div 10) % 10) \o ToString(i % 10)

\* The <<group, item>> positions of an exported structure, its item ids and
\* its records.
ExportedPositions(groups) ==
    UNION { { <<g, i>> : i \in 1..Len(groups[g][2]) } : g \in 1..Len(groups) }
ExportedItemId(groups, pos) == groups[pos[1]][2][pos[2]][1]
ExportedRecord(groups, pos) == groups[pos[1]][2][pos[2]][2]

\* The Y### and O### ids of the detections of this run.
SourceIdsOfRun ==
    { "Y" \o ThreeDigits(i) : i \in 1..Len(yolo_output) }
      \cup { "O" \o ThreeDigits(j) : j \in 1..Len(ocr_output) }

MergerCalled == ~IsNone(merger_call)
Grouped == pc \in {"images", "gemini", "integrate", "output", "done"}
                /\ ~IsNone(seraphine_analysis)

\* C1: no two Elements returned by IntelligentBBoxMerger.merge_detections
\* carry the same y_id other than NA, and no two carry the same o_id other
\* than NA.
C1_NoSharedSourceId ==
    MergerCalled =>
      \A i, j \in 1..Len(merger_call.merged) :
        i # j =>
          /\ merger_call.merged[i]["y_id"] = merger_call.merged[j]["y_id"]
               => merger_call.merged[i]["y_id"] = NA
          /\ merger_call.merged[i]["o_id"] = merger_call.merged[j]["o_id"]
               => merger_call.merged[i]["o_id"] = NA

\* C1 witness: a merge that removed a duplicate and kept two object Elements
\* and a text Element.
C1_Witness ==
    /\ MergerCalled
    /\ merger_call.merge_stats.removed >= 1
    /\ \E i, j, k \in 1..Len(merger_call.merged) :
         /\ i # j
         /\ merger_call.merged[i]["y_id"] # NA
         /\ merger_call.merged[j]["y_id"] # NA
         /\ merger_call.merged[k]["o_id"] # NA

\* C2 (as claimed): every Element of merge_detections has exactly one of y_id
\* and o_id set, on the side of its source, and that id is the source id of
\* the RawDetection it came from: Y or O followed by the position of that
\* detection in its detector's sequence.
C2_IdIsOriginSourceId ==
    MergerCalled =>
      LET order == SurvivorOrder(yolo_output, ocr_output, config.merger_iou_threshold)
      IN  \A k \in 1..Len(merger_call.merged) :
            LET e == merger_call.merged[k]
            IN  IF order[k][1] = "yolo"
                THEN e["y_id"] = "Y" \o ThreeDigits(order[k][2]) /\ e["o_id"] = NA
                ELSE e["o_id"] = "O" \o ThreeDigits(order[k][2]) /\ e["y_id"] = NA

\* C3: the Element at position i has the id M followed by i in three digits,
\* in merge_detections and in run_parallel_detection_and_merge; the ids are
\* pairwise distinct, and a second merge of the same input gives the same ids.
C3_ElementIdsByPosition ==
    /\ MergerCalled =>
         /\ \A i \in 1..Len(merger_call.merged) :
              merger_call.merged[i]["m_id"] = "M" \o ThreeDigits(i)
         /\ \A i, j \in 1..Len(merger_call.merged) :
              i # j => merger_call.merged[i]["m_id"] # merger_call.merged[j]["m_id"]
         /\ pc = "merged_again" =>
              /\ Len(merger_call.previous) = Len(merger_call.merged)
              /\ \A i \in 1..Len(merger_call.merged) :
                   merger_call.previous[i]["m_id"] = merger_call.merged[i]["m_id"]
    /\ ~IsNone(detection_results) =>
         /\ \A i \in 1..Len(detection_results.merged_detections) :
              detection_results.merged_detections[i]["m_id"] = "M" \o ThreeDigits(i)
         /\ \A i, j \in 1..Len(detection_results.merged_detections) :
              i # j => detection_results.merged_detections[i]["m_id"]
                         # detection_results.merged_detections[j]["m_id"]

\* C3 witness: a repeated merge with three Elements.
C3_Witness ==
    /\ pc = "merged_again"
    /\ Len(merger_call.merged) >= 3
    /\ merger_call.merged[3]["m_id"] = "M003"

\* C4: after run_seraphine_grouping on a non-empty Element sequence every
\* Element's m_id is a key of m_id_to_group_mapping and occurs in exactly one
\* list of group_to_m_ids_mapping, once, and total_m_ids_grouped is the number
\* of Elements.
C4_NoElementDropped ==
    Grouped =>
      LET merged == detection_results.merged_detections
          to_group == seraphine_analysis.m_id_to_group_mapping
          to_m_ids == seraphine_analysis.group_to_m_ids_mapping
          places(m) == { <<g, i>> \in ExportedPositions(to_m_ids) :
                           to_m_ids[g][2][i] = m }
      IN  /\ \A k \in 1..Len(merged) :
               /\ merged[k]["m_id"] \in OD_Keys(to_group)
               /\ Cardinality(places(merged[k]["m_id"])) = 1
          /\ seraphine_analysis.total_m_ids_grouped = Len(merged)

\* C4 witness: a grouping of four Elements with a row of two.
C4_Witness ==
    /\ Grouped
    /\ Len(detection_results.merged_detections) = 4
    /\ seraphine_analysis.analysis.total_groups = 3

C6_EmptyInputCompletes ==
    ( /\ pc = "done"
      /\ ~IsNone(detection_results)
      /\ detection_results.merged_detections = << >> )
      => error = "" /\ ~IsNone(result)

\* C7 (as claimed): in every exported record y_id and o_id are each a source
\* id of the run or NA, never None.
C7_ExportedIdsNeverNull ==
    ~IsNone(exported) =>
      \A p \in ExportedPositions(exported.groups) :
        /\ ExportedRecord(exported.groups, p).y_id \in SourceIdsOfRun \cup {NA}
        /\ ExportedRecord(exported.groups, p).o_id \in SourceIdsOfRun \cup {NA}

\* The input of the scenario of C8.
C8_Scenario ==
    /\ MergerCalled
    /\ config.merger_iou_threshold = 50
    /\ Len(yolo_output) = 1 /\ Len(ocr_output) = 1
    /\ yolo_output[1].bbox = <<10, 10, 50, 30>> /\ yolo_output[1].confidence = 9
    /\ ocr_output[1].bbox = <<12, 12, 48, 28>> /\ ocr_output[1].confidence = 8

\* C8: object box [10,10,50,30] (0.9, Y001) and text box [12,12,48,28] (0.8,
\* O001) at IoU threshold 0.5 fuse to exactly one Element: M001, from the
\* object detector, y_id Y001, o_id NA.
C8_ScenarioOneElement ==
    C8_Scenario =>
      /\ Len(merger_call.merged) = 1
      /\ merger_call.merged[1]["m_id"] = "M001"
      /\ merger_call.merged[1]["source"] = "yolo"
      /\ merger_call.merged[1]["y_id"] = "Y001"
      /\ merger_call.merged[1]["o_id"] = NA

\* C8 witness: the scenario was merged, on input that carries y_id / o_id.
C8_Witness == C8_Scenario /\ merger_call.tagged /\ merger_call.merge_stats.removed = 1

\* A slot of the export received no annotation: labeling was off, returned
\* nothing, failed, or skipped the slot.
Unannotated(item_id) ==
    \/ IsNone(gemini_results)
    \/ labeling_failure # "none"
    \/ item_id \notin OD_Keys(gemini_results.annotations)

\* C9 (as claimed): the exported record of a slot without annotation has name
\* "unanalyzed" and brief "Not analyzed", and its bbox, m_id, y_id, o_id, type
\* and source are populated.
C9_UnannotatedRecord ==
    ~IsNone(exported) =>
      \A p \in ExportedPositions(exported.groups) :
        Unannotated(ExportedItemId(exported.groups, p)) =>
          LET r == ExportedRecord(exported.groups, p)
          IN  /\ r.g_icon_name = "unanalyzed"
              /\ r.g_brief = "Not analyzed"
              /\ Len(r.bbox) = 4
              /\ r.m_id # None /\ r.y_id # None /\ r.o_id # None
              /\ r.type # None /\ r.source # None

\* C10 (as claimed): when run_gemini_analysis or integrate_gemini_results
\* raised, main() still returns a result, and the analysis it holds is the one
\* grouping computed, without annotations.
C10_LabelingFailureDoesNotAbort ==
    (pc = "done" /\ labeling_failure # "none") =>
      /\ error = ""
      /\ ~IsNone(result)
      /\ ~IsNone(seraphine_analysis)
      /\ seraphine_analysis.bbox_processor
           = run_seraphine_grouping(detection_results.merged_detections).bbox_processor

\* C11: the merge has run only when both detector tasks had delivered, and
\* when a detector task failed there is no merged sequence at all: the step
\* fails, and main() ends with the detection error and no result.
C11_FusionAfterBothDetectors ==
    /\ (~IsNone(detection_results) \/ ~IsNone(fusion_input))
         => yolo_status = "done" /\ ocr_status = "done"
    /\ DetectorFailed =>
         /\ IsNone(detection_results)
         /\ IsNone(fusion_input)
         /\ pc = "done" => error = "detection" /\ IsNone(result)

\* C11 witness: the object detector delivered, the text detector failed, and
\* main() has ended.
C11_Witness ==
    /\ pc = "done"
    /\ yolo_status = "done"
    /\ ocr_status = "failed"
    /\ Len(yolo_output) > 0

C13_IdsBeforeMerge ==
    ~IsNone(fusion_input) =>
      /\ \A i \in 1..Len(fusion_input[1]) : "y_id" \in DOMAIN fusion_input[1][i]
      /\ \A j \in 1..Len(fusion_input[2]) : "o_id" \in DOMAIN fusion_input[2][j]

\* The exported records of an analysis of this run.
RecordsOf(analysis) ==
    create_enhanced_seraphine_structure(analysis, detection_results.merged_detections)

\* Two records agree on the identity fields.
SameIdentity(r, q) ==
    /\ r.bbox = q.bbox /\ r.m_id = q.m_id
    /\ r.y_id = q.y_id /\ r.o_id = q.o_id
    /\ r.type = q.type /\ r.source = q.source

\* C15: merging the same annotation map back again leaves the analysis as the
\* first merge-back left it, and after any number of merge-backs the records
\* are the same slots with the identity fields (bbox, m_id, y_id, o_id, type,
\* source) they had before the first.
C15_MergeBackIdempotent ==
    ~IsNone(merge_back) =>
      /\ seraphine_analysis = merge_back.once
      /\ LET now == RecordsOf(seraphine_analysis)
             before == RecordsOf(merge_back.before)
         IN  /\ ExportedPositions(now) = ExportedPositions(before)
             /\ \A p \in ExportedPositions(now) :
                  /\ ExportedItemId(now, p) = ExportedItemId(before, p)
                  /\ SameIdentity(ExportedRecord(now, p), ExportedRecord(before, p))

\* C15 witness: a second merge-back of a map that annotated a slot.
C15_Witness ==
    /\ ~IsNone(merge_back)
    /\ merge_back.applications = 2
    /\ \E p \in ExportedPositions(RecordsOf(seraphine_analysis)) :
         ExportedRecord(RecordsOf(seraphine_analysis), p).g_icon_name # "unanalyzed"

\* C16: when the annotation map holds the key H9_1, which is no slot id, the
\* merge-back signals exactly one warning, for that key, adds no record and no
\* slot, and leaves every record as it was when H9_1 is the only key; main()
\* goes on to return a result.
C16_OrphanKeyDropped ==
    (~IsNone(merge_back) /\ orphan_key \in OD_Keys(gemini_results.annotations)) =>
      LET now == RecordsOf(seraphine_analysis)
          before == RecordsOf(merge_back.before)
      IN  /\ merge_back.warnings = << orphan_key >>
          /\ ExportedPositions(now) = ExportedPositions(before)
          /\ \A p \in ExportedPositions(now) :
               /\ ExportedItemId(now, p) = ExportedItemId(before, p)
               /\ ExportedItemId(now, p) # orphan_key
          /\ orphan_key \notin OD_Keys(now)
          /\ OD_Keys(gemini_results.annotations) = {orphan_key} => now = before
          /\ pc = "done" => error = "" /\ ~IsNone(result)

\* C16 witness: main() has ended after a merge-back of a map that holds H9_1
\* and the annotation of a slot.
C16_Witness ==
    /\ pc = "done"
    /\ ~IsNone(merge_back)
    /\ orphan_key \in OD_Keys(gemini_results.annotations)
    /\ Len(gemini_results.annotations) >= 2

\* The rank of a detection under the tie-break order, as a tuple compared
\* from the left: area, confidence, object source first, earlier position.
RankKey(n) ==
    LET d == DetOf(yolo_output, ocr_output, n)
    IN  << Area(d.bbox), d.confidence, IF n[1] = "yolo" THEN 1 ELSE 0, 0 - n[2] >>

RankAbove(a, b) ==
    \E k \in 1..4 : a[k] > b[k] /\ \A j \in 1..(k - 1) : a[j] = b[j]

Reversed(seq) == [ i \in 1..Len(seq) |-> seq[Len(seq) + 1 - i] ]

SurvivorBoxes(yolo, ocr, t) ==
    { DetOf(yolo, ocr, SurvivorOrder(yolo, ocr, t)[k]).bbox
        : k \in 1..Len(SurvivorOrder(yolo, ocr, t)) }

C18_ThresholdMonotone ==
    MergerCalled =>
      LET in == MergerInput(merger_call.tagged)
          thresholds == {0, 15, 34, 100} \cup {config.merger_iou_threshold}
          counts == { << t, Len(merge_detections(in[1], in[2], t)[1]) >> : t \in thresholds }
      IN  /\ << config.merger_iou_threshold, Len(merger_call.merged) >> \in counts
          /\ \A p, q \in counts : p[1] <= q[1] => p[2] <= q[2]

\* C18 witness: a call at the default threshold whose input gives more
\* Elements at threshold 0.5.
C18_Witness ==
    /\ MergerCalled
    /\ config.merger_iou_threshold = default_merger_iou_threshold
    /\ Len(merge_detections(MergerInput(merger_call.tagged)[1],
                            MergerInput(merger_call.tagged)[2], 50)[1])
         > Len(merger_call.merged)

\* C19: in a chain the executed commands are the non-empty commands of the
\* line, left to right, with none left out before the last one executed; only
\* the last executed command can have failed, and after a failure the chain
\* returns as stopped with every later command unexecuted.
C19_ChainInOrderStopsAtFailure ==
    Len(user_input) > 1 =>
      /\ \A k \in 1..Len(executed) :
           LET from == IF k = 1 THEN 0 ELSE executed[k - 1].step
           IN  /\ executed[k].step \in (from + 1)..Len(user_input)
               /\ executed[k].cmd = Strip(user_input[executed[k].step])
               /\ executed[k].cmd # ""
               /\ \A j \in (from + 1)..(executed[k].step - 1) : Strip(user_input[j]) = ""
               /\ k < Len(executed) => executed[k].success
      /\ mac_pc = "returned" =>
           LET last == IF executed = << >> THEN 0 ELSE executed[Len(executed)].step
               failed == executed # << >> /\ ~executed[Len(executed)].success
           IN  IF failed
               THEN reply.message = "stopped"
               ELSE /\ reply.message = "completed"
                    /\ \A j \in (last + 1)..Len(user_input) : Strip(user_input[j]) = ""

\* C19 witness: a chain of three commands that returned after its second
\* command failed, the third never executed.
C19_Witness ==
    /\ mac_pc = "returned"
    /\ Len(user_input) = 3
    /\ Len(executed) = 2
    /\ executed[1].success /\ ~executed[2].success
    /\ executed[2].step = 2
    /\ user_input[3] = "click 5 5"

\* C20: get_action_sequence_from_gemini returns a list only if the answer
\* carries a list whose items are all strings and all in available_buttons,
\* and then it returns exactly those labels; invalid JSON, a wrong shape, a
\* non-string item, a label not in the list and an API error all give None,
\* and a label that is no available button never enters the click loop.
C20_OnlyAvailableButtonsReturned ==
    loop_pc \in {"validated", "returned", "clicking"} =>
      LET carries_list ==
            /\ gemini_answer.kind \in {"list", "dict"}
            /\ gemini_answer.kind = "dict" => gemini_answer.has_key
            /\ gemini_answer.value_type = "list"
          all_strings ==
            \A i \in 1..Len(gemini_answer.items) : gemini_answer.items[i].type = "string"
          all_available ==
            \A i \in 1..Len(gemini_answer.items) :
                gemini_answer.items[i].text \in available_buttons
      IN  /\ ~action_sequence.is_none <=> (carries_list /\ all_strings /\ all_available)
          /\ ~action_sequence.is_none =>
                /\ Len(action_sequence.labels) = Len(gemini_answer.items)
                /\ \A i \in 1..Len(action_sequence.labels) :
                      /\ action_sequence.labels[i] = gemini_answer.items[i].text
                      /\ action_sequence.labels[i] \in available_buttons
          /\ loop_pc = "clicking" =>
                \A i \in 1..Len(action_sequence.labels) :
                    action_sequence.labels[i] \in available_buttons

\* C20 witness: an answer of two available labels under the key
\* "action_sequence" was validated and entered the click loop, with a button
\* on the screen that differs from a used one only in case.
C20_Witness ==
    /\ loop_pc = "clicking"
    /\ gemini_answer.kind = "dict"
    /\ ~action_sequence.is_none
    /\ action_sequence.labels = << "5", "x" >>
    /\ "X" \notin available_buttons

\* C21: when main() has returned in deploy_mcp mode, after a success or after
\* an exception at any step, no generated file is in the output directory.
C21_DeployLeavesNoFile ==
    (pc = "done" /\ config.mode = "deploy_mcp") => output_files = {}

\* C22: the position move_window_to_display passes to move_window lies on the
\* target display: on each axis origin <= target <= origin + size - window
\* and the margins differ by at most one when the window fits, target =
\* origin when it does not; a target display outside 1..N makes no move.
C22_MoveStaysOnDisplay ==
    (wm_pc = "done" /\ wm_call.op = "move_window_to_display") =>
      LET r == wm_call.request
          OnAxis(origin, size, side, target) ==
            IF side <= size
            THEN /\ origin <= target /\ target <= origin + size - side
                 /\ Abs((target - origin) - (origin + size - side - target)) <= 1
            ELSE target = origin
      IN  /\ r.target_display \notin 1..Len(Displays) =>
                wm_call.moves = << >> /\ ~wm_call.ok /\ windows = OpenWindows
          /\ \A k \in 1..Len(wm_call.moves) :
                LET d == Displays[r.target_display]
                IN  /\ wm_call.moves[k][1] = r.window_number
                    /\ OnAxis(d.origin.x, d.size.width, r.window_width, wm_call.moves[k][2])
                    /\ OnAxis(d.origin.y, d.size.height, r.window_height, wm_call.moves[k][3])

\* C22 witness: a window wider than the second display and lower than it was
\* moved there: x is the display's origin, y is centred.
C22_Witness ==
    /\ wm_pc = "done"
    /\ wm_call.op = "move_window_to_display"
    /\ wm_call.request.target_display = 2
    /\ wm_call.request.window_width = 9
    /\ wm_call.request.window_height = 2
    /\ wm_call.moves = << << 57, -6, 3 >> >>

\* C23: in loop.py the clicks issued are a prefix of the action sequence, in
\* order and all on the screen; the loop ends with every label clicked, or at
\* the first label whose element is not found (or has no bbox) or whose click
\* point is off the screen, and nothing is clicked after that.
C23_ClicksArePrefix ==
    loop_pc \in {"clicking", "returned", "not_found", "out_of_bounds"} =>
      LET labels == action_sequence.labels
          Matches(i, label) ==
            Lower(Strip(label)) = Lower(Strip(cv_elements[i].g_icon_name))
      IN  /\ Len(clicks) <= Len(labels)
          /\ \A k \in 1..Len(clicks) :
                /\ clicks[k].label = labels[k]
                /\ 0 <= clicks[k].x2 /\ clicks[k].x2 < 2 * Screen.width
                /\ 0 <= clicks[k].y2 /\ clicks[k].y2 < 2 * Screen.height
          /\ loop_pc = "clicking" => click_i = Len(clicks) + 1
          /\ loop_pc = "returned" => Len(clicks) = Len(labels)
          /\ loop_pc = "not_found" =>
                /\ Len(clicks) < Len(labels)
                /\ \A i \in 1..Len(cv_elements) :
                      Matches(i, labels[Len(clicks) + 1]) =>
                        \E j \in 1..i : /\ Matches(j, labels[Len(clicks) + 1])
                                         /\ ~cv_elements[j].has_bbox
          /\ loop_pc = "out_of_bounds" =>
                /\ Len(clicks) < Len(labels)
                /\ \E i \in 1..Len(cv_elements) :
                      /\ Matches(i, labels[Len(clicks) + 1])
                      /\ LET x == 2 * captured.left + cv_elements[i].bbox[1] + cv_elements[i].bbox[3]
                             y == 2 * captured.top + cv_elements[i].bbox[2] + cv_elements[i].bbox[4]
                         IN  x < 0 \/ x >= 2 * Screen.width \/ y < 0 \/ y >= 2 * Screen.height

\* C23 witness: the first label was clicked, the second has its click point
\* off the screen, and the loop ended there.
C23_Witness ==
    /\ loop_pc = "out_of_bounds"
    /\ Len(action_sequence.labels) = 2
    /\ Len(clicks) = 1
    /\ clicks[1].label = "5"
    /\ action_sequence.labels[2] = "+"

\* C24: every element main_task of loop.py clicks has a g_icon_name that,
\* trimmed, is exactly the label it was looked up for, case included.
C24_ClickedElementHasTheLabel ==
    loop_pc \in {"clicking", "returned", "not_found", "out_of_bounds"} =>
      \A k \in 1..Len(clicks) : Strip(clicks[k].element) = clicks[k].label

\* C25: the offset added to a bbox centre is the top-left corner of the
\* region that was captured for the detection: the window's corner for a
\* window capture, (0, 0) for a full-screen capture, in loop.py and in
\* app_test.py.
C25_OffsetIsCapturedCorner ==
    \A k \in 1..Len(clicks) : clicks[k].offset = clicks[k].region

\* C26: after refresh_windows every window on screen is found in
\* window_lookup under the last eight characters of its own id.
C26_EveryWindowReachable ==
    (wm_pc = "done" /\ wm_call.op = "refresh_windows") =>
      \A i \in 1..Len(windows) :
        LET key == LastEight(_generate_window_id(windows[i].window_number,
                                                 windows[i].pid, windows[i].title))
        IN  /\ key \in DOMAIN window_lookup
            /\ window_lookup[key].window_number = windows[i].window_number

\* C27: a window-control operation called with window number N changes no
\* window other than the window whose number is N.
C27_OnlyWindowNChanged ==
    (wm_pc = "done" /\ wm_call.op \in {"minimize_window", "maximize_window", "close_window",
                                       "bring_to_foreground", "resize_window", "move_window"}) =>
      \A i \in 1..Len(windows) :
        windows[i].window_number # wm_call.request.window_number =>
          windows[i].applied = << >>

\* C28: the groups field main() returns in deploy mode, and the one
\* save_enhanced_pipeline_json writes, is named "seraphine_gemini_groups"
\* only when the labeling results were integrated into the grouping; when
\* labeling was disabled, failed, or its integration raised, it is named
\* "seraphine_groups".
C28_FieldNameTellsIntegration ==
    pc = "done" =>
      LET integrated == ~IsNone(merge_back)
      IN  /\ (config.mode = "deploy_mcp" /\ ~IsNone(result)) =>
                (result.field_name = "seraphine_gemini_groups" <=> integrated)
          /\ ~IsNone(exported) =>
                (exported.field_name = "seraphine_gemini_groups" <=> integrated)

\* C29: in the AppleScript fallback of send_text the string literal of the
\* script ends at the script's last character and reads back as the input
\* text, whatever quotes and backslashes the text has.
C29_EscapedTextReadsBack ==
    (wm_pc = "done" /\ wm_call.op = "send_text" /\ wm_call.via = "applescript") =>
      LET literal == ReadLiteral(wm_call.after_quote, 1, << >>)
      IN  /\ literal.closed_at = Len(wm_call.after_quote)
          /\ literal.value = wm_call.text

\* C30: send_mouse_click and send_mouse_long_click with a button name other
\* than left, right or middle fail, post no mouse event and leave the cursor
\* where it was, also when target coordinates were given.
C30_InvalidButtonNoSideEffect ==
    ( /\ wm_pc = "done"
      /\ wm_call.op \in {"send_mouse_click", "send_mouse_long_click"}
      /\ wm_call.request.button \notin {"left", "right", "middle"} ) =>
        /\ ~wm_call.ok
        /\ mouse_events = << >>
        /\ cursor = wm_call.request.cursor_before

====
